---- MODULE Spec2Model ----
(***************************************************************************)
(* A model of the kon/dot coding assistant core: the overflow predicate,   *)
(* the session log with its compacted view and the agent turn loop, and    *)
(* the provider stream parsers (Anthropic Messages, OpenAI Responses,      *)
(* ChatGPT-backend Responses).                                             *)
(*                                                                         *)
(* Each subsystem has its own specification over its own variables; the    *)
(* variables of the other subsystems stay at their idle values.            *)
(***************************************************************************)
EXTENDS Integers, Sequences, FiniteSets, TLC

VARIABLES
    \* ---- is_overflow (core/compaction.py)
    ovUsage,        \* the Usage passed to is_overflow
    ovConfig,       \* [W, M, B]: context_window, max_output_tokens, buffer_tokens
    ovResult,       \* "none" before the call, then TRUE / FALSE
    \* ---- session log and agent turn loop
    entries,        \* the append-only entry list of the session
    phase,          \* idle | streaming | awaiting_tools | compacting
    running,        \* ids of the tool calls in flight
    cancel,         \* the turn's cancel token
    nextCall,       \* next fresh tool-call id
    turnStop,       \* stop reason recorded for the last ended turn
    turnCalls,      \* tool-call ids of the current assistant message
    early,          \* tool-call ids whose result was appended before the interrupt
    policy,         \* compaction.on_overflow: continue | pause
    nextSummary,    \* numbers the summaries, so that two compactions differ
    openStreams,    \* provider streams of the session that are open
    queued,         \* a prompt submitted while the loop was busy is waiting
    \* ---- provider stream parsers
    lastEvent,      \* the upstream event handled last
    lastOut,        \* the StreamParts yielded while handling it
    nEvents,        \* upstream events handled
    finished,       \* the generator has returned
    upstreamStatus, \* the terminal status the upstream reported, "" when none
    stop_reason,    \* Anthropic: the stop reason latched so far
    stream_usage,   \* LLMStream._usage: <<>> for None, else <<Usage>>
    tool_use_blocks,\* Anthropic: the content blocks started, in order
    toolIndex,      \* current_tool_index + 1 / tool_call_index
    current_tool_calls, \* Responses: the open calls in insertion order
    current_key,    \* Responses: current_tool_call_key / last_tool_call_id
    prevCalls,      \* current_tool_calls before the last event
    arrived,        \* per call, the fragments the upstream sent for it
    consumer,       \* per ToolCallStart, its id and the deltas of its index
    \* ---- tool executions under the shared cancel event
    cancel_event,   \* asyncio.Event shared by the tools of a turn
    tpc,            \* per tool: idle | waiting | returned
    tproc,          \* per tool, its subprocess: none | running | exited | killed | killed_group
    tresult,        \* per tool, the ToolResult returned: none | ok | aborted | timed_out
    \* ---- session store: ids, parent links, session files
    stEntries,      \* Session.entries of the session in memory
    stLeaf,         \* Session.leaf_id, 0 for none
    stNextId,       \* the next fresh entry id
    stFiles,        \* the session files: per file, its lines after the header
    stFile,         \* the file of the session in memory
    stOp,           \* the last operation: none | append | load | fork
    stBefore,       \* entries, leaf and files just before the last operation
    \* ---- the request loop of the ChatGPT-backend provider
    rState,         \* requesting | streaming | failed
    rResponses,     \* the outcome of every request attempted, in order
    rWaits,         \* the delays slept before the retries, in ms
    rErrors,        \* the errors carried by the StreamError parts yielded
    \* ---- device-code polling (poll_for_github_token)
    pNow,           \* time.time(), in seconds since the call
    deadline,       \* time.time() + expires_in at the call
    poll_interval,  \* the current polling interval
    polls,          \* per poll: its time, the response, the interval it left
    pResult,        \* none | token | timeout | error
    \* ---- OAuth credential stores (copilot_auth.json, openai_auth.json)
    credStore,      \* which store: copilot | openai
    cNow,           \* time.time() * 1000
    credFile,       \* the credentials file: exists, content, mode
    saving,         \* a save_credentials in progress in another process
    credOld,        \* the credentials of the last completed save
    credLoad,         \* the last load_credentials that ran beside the saves
    gvt,            \* the last get_valid_token call and what it did
    nextToken,      \* numbers the access tokens the server issues
    \* ---- ChatGPT PKCE login (oauth/openai.py login)
    lgConfig,       \* is the callback server up, is on_manual_input given
    lgPhase,        \* waiting | exchanging | logged_in | failed | state_mismatch | timed_out
    lgRequests,     \* requests the callback server handled
    lgLast,         \* the last request handled and the status it was answered with
    lgMismatch,     \* a callback or pasted input carried a state other than the issued one
    lgAccepted,     \* the code handed to the token exchange and the state it came with
    lgExchanges,    \* token exchanges performed
    \* ---- one call of a function under examination
    callArgs,       \* its arguments and the environment it runs in
    callRet,        \* what it returned or raised
    called,         \* the call has been made
    \* ---- two edit tool calls of one turn on one file
    edOrig,         \* the file content before the turn
    edFile,         \* the file content now
    edPc,           \* where each call stands: start | read | opened | done
    edSeen,         \* the content each call read
    edResult,       \* the ToolResult of each call: none | success | failure
    \* ---- the prompt history of the input box
    hEntries,       \* PromptHistory._entries
    hIndex,         \* PromptHistory._index
    hDraft,         \* PromptHistory._draft
    hLeft,          \* the input text when navigation last left index 0
    hCall           \* the last call: its arguments, what it returned, the index before

ovVars   == <<ovUsage, ovConfig, ovResult>>
sessVars == <<entries, phase, running, cancel, nextCall, turnStop, turnCalls, early,
             policy, nextSummary, openStreams, queued>>
strmVars == <<lastEvent, lastOut, nEvents, finished, upstreamStatus, stop_reason,
             stream_usage, tool_use_blocks, toolIndex, current_tool_calls, current_key,
             prevCalls, arrived, consumer>>
toolVars == <<cancel_event, tpc, tproc, tresult>>
storeVars == <<stEntries, stLeaf, stNextId, stFiles, stFile, stOp, stBefore>>
retryVars == <<rState, rResponses, rWaits, rErrors>>
pollVars == <<pNow, deadline, poll_interval, polls, pResult>>
credVars == <<credStore, cNow, credFile, saving, credOld, credLoad, gvt, nextToken>>
loginVars == <<lgConfig, lgPhase, lgRequests, lgLast, lgMismatch, lgAccepted, lgExchanges>>
callVars == <<callArgs, callRet, called>>
editVars == <<edOrig, edFile, edPc, edSeen, edResult>>
histVars == <<hEntries, hIndex, hDraft, hLeft, hCall>>
vars     == <<ovVars, sessVars, strmVars, toolVars, storeVars, retryVars, pollVars,
             credVars, loginVars, callVars, editVars, histVars>>

\* What a step of one subsystem leaves alone: the other subsystems.
exceptOv    == <<sessVars, strmVars, toolVars, storeVars, retryVars, pollVars, credVars, loginVars, callVars,
                editVars, histVars>>
exceptSess  == <<ovVars, strmVars, toolVars, storeVars, retryVars, pollVars, credVars, loginVars, callVars,
                editVars, histVars>>
exceptStrm  == <<ovVars, sessVars, toolVars, storeVars, retryVars, pollVars, credVars, loginVars, callVars,
                editVars, histVars>>
exceptTool  == <<ovVars, sessVars, strmVars, storeVars, retryVars, pollVars, credVars, loginVars, callVars,
                editVars, histVars>>
exceptStore == <<ovVars, sessVars, strmVars, toolVars, retryVars, pollVars, credVars, loginVars, callVars,
                editVars, histVars>>
exceptRetry == <<ovVars, sessVars, strmVars, toolVars, storeVars, pollVars, credVars, loginVars, callVars,
                editVars, histVars>>
exceptPoll  == <<ovVars, sessVars, strmVars, toolVars, storeVars, retryVars, credVars, loginVars, callVars,
                editVars, histVars>>
exceptCred  == <<ovVars, sessVars, strmVars, toolVars, storeVars, retryVars, pollVars, loginVars, callVars,
                editVars, histVars>>
exceptLogin == <<ovVars, sessVars, strmVars, toolVars, storeVars, retryVars, pollVars, credVars, callVars,
                editVars, histVars>>
exceptCall  == <<ovVars, sessVars, strmVars, toolVars, storeVars, retryVars, pollVars, credVars,
                loginVars,
                editVars, histVars>>
exceptEdit  == <<ovVars, sessVars, strmVars, toolVars, storeVars, retryVars, pollVars, credVars,
                loginVars, callVars, histVars>>
exceptHist  == <<ovVars, sessVars, strmVars, toolVars, storeVars, retryVars, pollVars, credVars,
                loginVars, callVars, editVars>>

Min(a, b) == IF a <= b THEN a ELSE b

(***************************************************************************)
(* Bounds                                                                  *)
(***************************************************************************)
MaxTok     == 2    \* each Usage counter ranges over 0..MaxTok
MaxWindow  == 5    \* context_window ranges over 0..MaxWindow
MaxReserve == 2    \* buffer_tokens and max_output_tokens range over 0..MaxReserve
MaxEntries == 7    \* entries appended to one session
MaxCalls   == 2    \* tool calls of one assistant message
MaxEvents  == 4    \* upstream events of one provider stream
MaxStored  == 3    \* entries appended to the session files
MaxFiles   == 2    \* session files
MaxInterval == 2   \* the interval of the device-code response ranges over 0..MaxInterval
MaxExpires == 8    \* expires_in ranges over 1..MaxExpires
MaxClock   == 3    \* the clock of the credential stores runs for MaxClock half minutes
MaxIssued  == 3    \* access tokens issued to the credential store
MaxRequests == 2   \* requests the login callback server handles

(***************************************************************************)
(* is_overflow                                                             *)
(***************************************************************************)
UsageSet == [input_tokens : 0..MaxTok, output_tokens : 0..MaxTok,
             cache_read_tokens : 0..MaxTok, cache_write_tokens : 0..MaxTok]

ConfigSet == [W : 0..MaxWindow, M : 0..MaxReserve, B : 0..MaxReserve]

\* A plausible slip: counting Usage.total_tokens (input + output) only.
IsOverflowTotalOnly(usage, context_window, max_output_tokens, buffer_tokens) ==
    LET count    == usage.input_tokens + usage.output_tokens
        reserved == Min(buffer_tokens, max_output_tokens)
        usable   == context_window - reserved
    IN  count >= usable

is_overflow(usage, context_window, max_output_tokens, buffer_tokens) ==
    LET count    == usage.input_tokens + usage.output_tokens
                    + usage.cache_read_tokens + usage.cache_write_tokens
        reserved == Min(buffer_tokens, max_output_tokens)
        usable   == context_window - reserved
    IN  count >= usable

OvIdle == /\ ovUsage = [input_tokens |-> 0, output_tokens |-> 0,
                        cache_read_tokens |-> 0, cache_write_tokens |-> 0]
          /\ ovConfig = [W |-> 0, M |-> 0, B |-> 0]
          /\ ovResult = <<>>

OvInit == /\ ovUsage \in UsageSet
          /\ ovConfig \in ConfigSet
          /\ ovResult = <<>>

\* One call of is_overflow on the drawn usage and configuration.
OvCheck ==
    /\ ovResult = <<>>
    /\ ovResult' = <<is_overflow(ovUsage, ovConfig.W, ovConfig.M, ovConfig.B)>>
    /\ UNCHANGED <<ovUsage, ovConfig>>

(***************************************************************************)
(* Session log: entries and the two message views                          *)
(***************************************************************************)
NoEntry == [type |-> "none", text |-> "", calls |-> {}, call |-> 0,
            is_error |-> FALSE, summary |-> 0, stop |-> "none"]

UserMessage(t) == [NoEntry EXCEPT !.type = "user", !.text = t]

AssistantMessage(cs, reason) ==
    [NoEntry EXCEPT !.type = "assistant", !.calls = cs, !.stop = reason]

ToolResultMessage(c, t, err) ==
    [NoEntry EXCEPT !.type = "tool_result", !.call = c, !.text = t, !.is_error = err]

CompactionEntry(s) == [NoEntry EXCEPT !.type = "compaction", !.summary = s]

ModelChangeEntry == [NoEntry EXCEPT !.type = "model_change"]

\* A MessageEntry wraps one of the three Message variants.
IsMessageEntry(e) == e.type \in {"user", "assistant", "tool_result"}

\* The canonical synthetic pair that opens a compacted view.
SyntheticUser == UserMessage("What did we do so far?")

SyntheticAssistant(s) ==
    [NoEntry EXCEPT !.type = "assistant", !.text = "summary", !.summary = s]

\* A plausible slip: the messages before the latest compaction are left out.
RECURSIVE AllMessagesSinceCompaction(_)
AllMessagesSinceCompaction(es) ==
    IF es = <<>> THEN <<>>
    ELSE LET last == es[Len(es)]
         IN  IF last.type = "compaction" THEN <<>>
             ELSE AllMessagesSinceCompaction(SubSeq(es, 1, Len(es) - 1))
                  \o (IF IsMessageEntry(last) THEN <<last>> ELSE <<>>)

\* Session.all_messages: every MessageEntry message, compactions ignored.
all_messages(es) == SelectSeq(es, IsMessageEntry)

\* A plausible slip: cutting at the FIRST compaction instead of the latest.
RECURSIVE FirstCompaction(_, _)
FirstCompaction(es, i) ==
    IF i > Len(es) THEN 0
    ELSE IF es[i].type = "compaction" THEN i
    ELSE FirstCompaction(es, i + 1)

FirstCut(es) == FirstCompaction(es, 1)

\* Index of the latest CompactionEntry on the chain, 0 when there is none.
RECURSIVE LatestCompaction(_, _)
LatestCompaction(es, i) ==
    IF i = 0 THEN 0
    ELSE IF es[i].type = "compaction" THEN i
    ELSE LatestCompaction(es, i - 1)

LatestCut(es) == LatestCompaction(es, Len(es))

\* Session.messages: the compacted view.
messages(es) ==
    LET cut == LatestCut(es)
    IN  IF cut = 0 THEN SelectSeq(es, IsMessageEntry)
        ELSE <<SyntheticUser, SyntheticAssistant(es[cut].summary)>>
             \o SelectSeq(SubSeq(es, cut + 1, Len(es)), IsMessageEntry)

\* A plausible slip: accepting any assistant message as a boundary.
AnyAssistantLast(es) == Len(es) > 0 /\ es[Len(es)].type = "assistant"

\* The assistant-finalized boundary: the last entry is an AssistantMessage
\* with no unreplied tool calls.
AssistantFinalized(es) ==
    /\ Len(es) > 0
    /\ es[Len(es)].type = "assistant"
    /\ es[Len(es)].calls = {}

(***************************************************************************)
(* Agent turn loop                                                         *)
(***************************************************************************)
StopReasons == {"stop", "length", "tool_use"}

NoUsage == [input_tokens |-> 0, output_tokens |-> 0,
            cache_read_tokens |-> 0, cache_write_tokens |-> 0]

FullUsage == [input_tokens |-> MaxTok, output_tokens |-> MaxTok,
              cache_read_tokens |-> MaxTok, cache_write_tokens |-> MaxTok]

\* The overflow check of the loop on the usage of the finished stream.
LoopOverflow(u) == is_overflow(u, MaxWindow, MaxReserve, MaxReserve)

SessIdle == /\ entries = <<>>
            /\ phase = "idle"
            /\ running = {}
            /\ cancel = FALSE
            /\ nextCall = 1
            /\ turnStop = "none"
            /\ turnCalls = {}
            /\ early = {}
            /\ policy = "continue"
            /\ nextSummary = 1
            /\ openStreams = 0
            /\ queued = FALSE

SessInit == /\ entries = <<>>
            /\ phase = "idle"
            /\ running = {}
            /\ cancel = FALSE
            /\ nextCall = 1
            /\ turnStop = "none"
            /\ turnCalls = {}
            /\ early = {}
            /\ policy \in {"continue", "pause"}
            /\ nextSummary = 1
            /\ openStreams = 0
            /\ queued = FALSE

\* A plausible slip: the next stream is opened while the last one stays open.
CloseStreamLate(n) == n

\* The stream has been read to its end, or was cancelled: it is closed.
CloseStream(n) == n - 1

\* provider.stream(...) opens a stream.
OpenStream(n) == n + 1

\* Session.append: the entry becomes the leaf.
AppendEntry(e) == entries' = Append(entries, e)

\* Step 1: the user submits a prompt.
Submit ==
    /\ phase = "idle"
    /\ Len(entries) < MaxEntries
    /\ AppendEntry(UserMessage("prompt"))
    /\ phase' = "streaming"
    /\ cancel' = FALSE
    /\ turnStop' = "none"
    /\ turnCalls' = {}
    /\ early' = {}
    /\ openStreams' = OpenStream(openStreams)
    /\ queued' = FALSE
    /\ UNCHANGED <<running, nextCall, policy, nextSummary>>

\* The user submits a prompt while a turn or a compaction is running: the
\* prompt waits until the loop is idle.
SubmitBusy ==
    /\ phase # "idle"
    /\ ~queued
    /\ queued' = TRUE
    /\ UNCHANGED <<entries, phase, running, cancel, nextCall, turnStop, turnCalls, early,
                   policy, nextSummary, openStreams>>

\* The model or provider is changed between turns.
ChangeModel ==
    /\ phase = "idle"
    /\ Len(entries) < MaxEntries
    /\ AppendEntry(ModelChangeEntry)
    /\ UNCHANGED <<phase, running, cancel, nextCall, turnStop, turnCalls, early,
                   policy, nextSummary, openStreams, queued>>

\* Steps 2c-2e and 3: the stream ends with Done(reason) after opening k tool
\* calls; the AssistantMessage is appended, the calls are dispatched when the
\* reason is tool_use, otherwise the loop exits through the overflow check.
StreamDone ==
    \E k \in 0..MaxCalls, reason \in StopReasons, u \in {NoUsage, FullUsage} :
        LET cs  == nextCall..(nextCall + k - 1)
            msg == AssistantMessage(cs, reason)
            es  == Append(entries, msg)
        IN  /\ phase = "streaming"
            /\ ~cancel
            /\ Len(entries) + 1 + k <= MaxEntries
            /\ entries' = es
            /\ nextCall' = nextCall + k
            /\ turnCalls' = cs
            /\ early' = {}
            /\ IF reason = "tool_use"
               THEN /\ running' = cs
                    /\ phase' = IF k = 0 THEN "streaming" ELSE "awaiting_tools"
                    /\ turnStop' = "none"
               ELSE /\ running' = {}
                    /\ turnStop' = reason
                    /\ phase' = IF /\ LoopOverflow(u)
                                   /\ policy = "continue"
                                   /\ AssistantFinalized(es)
                                   /\ Len(es) < MaxEntries
                                THEN "compacting" ELSE "idle"
            /\ openStreams' = IF phase' \in {"streaming", "compacting"}
                              THEN OpenStream(CloseStream(openStreams))
                              ELSE CloseStream(openStreams)
            /\ UNCHANGED <<cancel, policy, nextSummary, queued>>

\* The stream ends with Error: the turn halts, no partial assistant is appended.
StreamFail ==
    /\ phase = "streaming"
    /\ ~cancel
    /\ phase' = "idle"
    /\ turnStop' = "error"
    /\ openStreams' = CloseStream(openStreams)
    /\ UNCHANGED <<entries, running, cancel, nextCall, turnCalls, early,
                   policy, nextSummary, queued>>

\* A plausible slip: the tool does not look at the cancel event.
ExecuteIgnoringCancel(cancelled, ok) == [success |-> ok, result |-> "output"]

\* BashTool.execute, as far as its caller sees it: once the cancel event is set
\* the process tree is killed and the aborted result returned; otherwise the
\* command's own result, successful or not.
execute(cancelled, ok) ==
    IF cancelled THEN [success |-> FALSE, result |-> "Command aborted"]
    ELSE [success |-> ok, result |-> "output"]

\* A plausible slip: the finished call stays among the calls in flight.
RemainingKeep(rs, c) == rs

\* The calls still in flight once call c has returned.
Remaining(rs, c) == rs \ {c}

\* Step 2d: one dispatched tool returns; its ToolResultMessage is appended in
\* completion order.  A tool that returns once the cancel event is set returns
\* the aborted result.
ToolFinish(c) ==
    /\ phase = "awaiting_tools"
    /\ c \in running
    /\ \E ok \in BOOLEAN :
          LET r == execute(cancel, ok)
          IN  /\ Len(entries) < MaxEntries
              /\ AppendEntry(ToolResultMessage(c, r.result, ~r.success))
    /\ running' = Remaining(running, c)
    /\ early' = IF cancel THEN early ELSE early \cup {c}
    /\ IF running' = {}
       THEN IF cancel
            THEN phase' = "idle" /\ turnStop' = "interrupted"
            ELSE phase' = "streaming" /\ turnStop' = "none"
       ELSE UNCHANGED <<phase, turnStop>>
    /\ openStreams' = IF phase' = "streaming" THEN OpenStream(openStreams)
                      ELSE openStreams
    /\ UNCHANGED <<cancel, nextCall, turnCalls, policy, nextSummary, queued>>

\* Step 4: the user interrupts the running turn; the cancel token fires.
Interrupt ==
    /\ phase \in {"streaming", "awaiting_tools"}
    /\ ~cancel
    /\ cancel' = TRUE
    /\ UNCHANGED <<entries, phase, running, nextCall, turnStop, turnCalls, early,
                   policy, nextSummary, openStreams, queued>>

\* The synthetic results of the tools in flight, in call order.
RECURSIVE Aborted(_)
Aborted(cs) ==
    IF cs = {} THEN <<>>
    ELSE LET c == CHOOSE x \in cs : \A y \in cs : x <= y
         IN  <<ToolResultMessage(c, "Command aborted", TRUE)>> \o Aborted(cs \ {c})

\* A plausible slip: a synthetic result for every call of the message, also
\* for the ones that had already completed.
InFlightAll(rs, cs) == cs

\* The calls that get a synthetic result at the interrupt.
InFlight(rs, cs) == rs

\* Step 4: the loop observes the cancel token: the stream is aborted, every
\* tool still in flight gets its synthetic result, the turn ends interrupted.
ObserveCancel ==
    /\ phase \in {"streaming", "awaiting_tools"}
    /\ cancel
    /\ entries' = entries \o Aborted(InFlight(running, turnCalls))
    /\ running' = {}
    /\ phase' = "idle"
    /\ turnStop' = "interrupted"
    /\ openStreams' = IF phase = "streaming" THEN CloseStream(openStreams)
                      ELSE openStreams
    /\ UNCHANGED <<cancel, nextCall, turnCalls, early, policy, nextSummary, queued>>

\* The user asks for a compaction between turns (/compact).
ManualCompact ==
    /\ phase = "idle"
    /\ AssistantFinalized(entries)
    /\ Len(entries) < MaxEntries
    /\ phase' = "compacting"
    /\ openStreams' = OpenStream(openStreams)
    /\ UNCHANGED <<entries, running, cancel, nextCall, turnStop, turnCalls, early,
                   policy, nextSummary, queued>>

\* The summary is ready: the CompactionEntry is appended.
CompactDone ==
    /\ phase = "compacting"
    /\ AppendEntry(CompactionEntry(nextSummary))
    /\ nextSummary' = nextSummary + 1
    /\ phase' = "idle"
    /\ openStreams' = CloseStream(openStreams)
    /\ UNCHANGED <<running, cancel, nextCall, turnStop, turnCalls, early, policy, queued>>

SessNext ==
    \/ Submit /\ UNCHANGED exceptSess
    \/ SubmitBusy /\ UNCHANGED exceptSess
    \/ ChangeModel /\ UNCHANGED exceptSess
    \/ StreamDone /\ UNCHANGED exceptSess
    \/ StreamFail /\ UNCHANGED exceptSess
    \/ \E c \in running : ToolFinish(c) /\ UNCHANGED exceptSess
    \/ Interrupt /\ UNCHANGED exceptSess
    \/ ObserveCancel /\ UNCHANGED exceptSess
    \/ ManualCompact /\ UNCHANGED exceptSess
    \/ CompactDone /\ UNCHANGED exceptSess

OvNext == OvCheck /\ UNCHANGED exceptOv

(***************************************************************************)
(* Stream parts, upstream events and the consumer of the parts             *)
(***************************************************************************)
NoId == <<>>

NoPart == [type |-> "none", index |-> 0 - 1, id |-> NoId, text |-> <<>>, stop |-> "none"]

TextPart(t) == [NoPart EXCEPT !.type = "text", !.text = t]

ToolCallStart(i, idx) == [NoPart EXCEPT !.type = "tool_call_start", !.id = i, !.index = idx]

ToolCallDelta(idx, d) == [NoPart EXCEPT !.type = "tool_call_delta", !.index = idx, !.text = d]

StreamDonePart(reason) == [NoPart EXCEPT !.type = "done", !.stop = reason]

StreamError == [NoPart EXCEPT !.type = "error"]

\* The n-th upstream event carries the n-th letter as its fragment, so that
\* every fragment of a stream can be told from the others.
Letters == <<"a", "b", "c", "d", "e", "f", "g", "h">>

Fragment == <<Letters[nEvents + 1]>>

NoEvent == [type |-> "none", call |-> "", item |-> "", block |-> 0 - 1,
            text |-> <<>>, has |-> FALSE, status |-> "", tokens |-> <<>>]

\* The consumer of the parts: a ToolCallStart opens the slot of its index, a
\* ToolCallDelta is appended to the slot of its index.
RECURSIVE Consume(_, _)
Consume(slots, ps) ==
    IF ps = <<>> THEN slots
    ELSE LET p == Head(ps)
             n == p.index + 1
             next ==
                 IF p.type = "tool_call_start"
                 THEN Append(slots, [id |-> p.id, index |-> p.index, args |-> <<>>])
                 ELSE IF p.type = "tool_call_delta" /\ n \in 1..Len(slots)
                 THEN [slots EXCEPT ![n].args = @ \o p.text]
                 ELSE slots
         IN  Consume(next, Tail(ps))

StrmIdle == /\ lastEvent = NoEvent
            /\ lastOut = <<>>
            /\ nEvents = 0
            /\ finished = FALSE
            /\ upstreamStatus = ""
            /\ stop_reason = "stop"
            /\ stream_usage = <<>>
            /\ tool_use_blocks = <<>>
            /\ toolIndex = 0
            /\ current_tool_calls = <<>>
            /\ current_key = NoId
            /\ prevCalls = <<>>
            /\ arrived = <<>>
            /\ consumer = <<>>

\* One upstream event ev is consumed and the parts ps are yielded.
Handle(ev, ps) ==
    /\ ~finished
    /\ nEvents < MaxEvents
    /\ nEvents' = nEvents + 1
    /\ lastEvent' = ev
    /\ lastOut' = ps
    /\ consumer' = Consume(consumer, ps)
    /\ prevCalls' = current_tool_calls

\* The generator returns after yielding the parts ps.
Return(ev, ps) ==
    /\ ~finished
    /\ finished' = TRUE
    /\ lastEvent' = ev
    /\ lastOut' = ps
    /\ consumer' = Consume(consumer, ps)
    /\ prevCalls' = current_tool_calls
    /\ UNCHANGED nEvents

(***************************************************************************)
(* AnthropicProvider._process_stream                                       *)
(***************************************************************************)
AnthropicStops == {"end_turn", "max_tokens", "tool_use", "stop_sequence"}

\* AnthropicProvider._map_stop_reason
AnthropicMapStopReason(reason) ==
    CASE reason = "end_turn"   -> "stop"
      [] reason = "max_tokens" -> "length"
      [] reason = "tool_use"   -> "tool_use"
      [] OTHER                 -> "stop"

ToolUseIds == <<"toolu_1", "toolu_2", "toolu_3", "toolu_4", "toolu_5">>

respVars == <<current_tool_calls, current_key, arrived>>

\* MessageStartEvent: input_tokens excludes the cached tokens, so they are added.
AMessageStart ==
    \E inp \in 0..MaxTok, out \in 0..1, cr \in 0..MaxTok :
        /\ nEvents = 0
        /\ Handle([NoEvent EXCEPT !.type = "message_start", !.tokens = <<inp, out, cr>>],
                  <<>>)
        /\ stream_usage' = <<[input_tokens |-> inp + cr, output_tokens |-> out,
                              cache_read_tokens |-> cr, cache_write_tokens |-> 0]>>
        /\ UNCHANGED <<finished, upstreamStatus, stop_reason, tool_use_blocks, toolIndex,
                       respVars>>

\* ContentBlockStartEvent: a ToolUseBlock opens a tool call, other blocks do not.
\* The upstream numbers the content blocks of a message in order.
AContentBlockStart ==
    \E kind \in {"tool_use", "text"} :
        LET idx == Len(tool_use_blocks)
            id  == <<ToolUseIds[toolIndex + 1]>>
        IN  /\ nEvents > 0
            /\ Handle([NoEvent EXCEPT !.type = "content_block_start", !.block = idx,
                                      !.status = kind],
                      IF kind = "tool_use" THEN <<ToolCallStart(id, toolIndex)>> ELSE <<>>)
            /\ tool_use_blocks' = Append(tool_use_blocks,
                                         [kind |-> kind, index |-> idx, id |-> id,
                                          args |-> <<>>])
            /\ toolIndex' = IF kind = "tool_use" THEN toolIndex + 1 ELSE toolIndex
            /\ UNCHANGED <<finished, upstreamStatus, stop_reason, stream_usage, respVars>>

\* list(tool_use_blocks.keys()).index(event.index): the position of the block
\* among the tool-use blocks.
LogicalIndex(blocks, idx) ==
    Cardinality({j \in 1..Len(blocks) :
                    blocks[j].kind = "tool_use" /\ blocks[j].index < idx})

\* ContentBlockDeltaEvent: text_delta and input_json_delta.
AContentBlockDelta ==
    \E j \in 1..Len(tool_use_blocks) :
        LET b == tool_use_blocks[j]
        IN  /\ Handle([NoEvent EXCEPT !.type = "content_block_delta", !.block = b.index,
                                      !.status = b.kind, !.text = Fragment],
                      IF b.kind = "tool_use"
                      THEN <<ToolCallDelta(LogicalIndex(tool_use_blocks, b.index),
                                           Fragment)>>
                      ELSE <<TextPart(Fragment)>>)
            /\ tool_use_blocks' = [tool_use_blocks EXCEPT ![j].args = @ \o Fragment]
            /\ UNCHANGED <<finished, upstreamStatus, stop_reason, stream_usage, toolIndex,
                           respVars>>

\* MessageDeltaEvent: the stop reason is latched; output and cache-read counts
\* are replaced, the input count is kept.
AMessageDelta ==
    \E reason \in AnthropicStops \cup {""},
       u \in {<<>>} \cup ((0..1) \X (0..MaxTok)) :
        /\ nEvents > 0
        /\ Handle([NoEvent EXCEPT !.type = "message_delta", !.status = reason,
                                  !.has = (u # <<>>), !.tokens = u],
                  <<>>)
        /\ upstreamStatus' = IF reason # "" THEN reason ELSE upstreamStatus
        /\ stop_reason' = IF reason # "" THEN AnthropicMapStopReason(reason)
                          ELSE stop_reason
        /\ stream_usage' =
              IF u # <<>> /\ stream_usage # <<>>
              THEN <<[input_tokens |-> stream_usage[1].input_tokens,
                      output_tokens |-> u[1],
                      cache_read_tokens |->
                          IF u[2] # 0 THEN u[2] ELSE stream_usage[1].cache_read_tokens,
                      cache_write_tokens |-> 0]>>
              ELSE stream_usage
        /\ UNCHANGED <<finished, tool_use_blocks, toolIndex, respVars>>

\* The upstream iterator is exhausted: StreamDone with the latched reason.
AEnd ==
    /\ nEvents > 0
    /\ Return([NoEvent EXCEPT !.type = "end"], <<StreamDonePart(stop_reason)>>)
    /\ UNCHANGED <<upstreamStatus, stop_reason, stream_usage, tool_use_blocks, toolIndex,
                   respVars>>

\* The upstream iterator raises: StreamError.
ARaise ==
    /\ Return([NoEvent EXCEPT !.type = "raise"], <<StreamError>>)
    /\ UNCHANGED <<upstreamStatus, stop_reason, stream_usage, tool_use_blocks, toolIndex,
                   respVars>>

AnthropicNext ==
    \/ AMessageStart /\ UNCHANGED exceptStrm
    \/ AContentBlockStart /\ UNCHANGED exceptStrm
    \/ AContentBlockDelta /\ UNCHANGED exceptStrm
    \/ AMessageDelta /\ UNCHANGED exceptStrm
    \/ AEnd /\ UNCHANGED exceptStrm
    \/ ARaise /\ UNCHANGED exceptStrm

(***************************************************************************)
(* OpenAIResponsesProvider._process_stream                                 *)
(***************************************************************************)
CallIds == <<"call_1", "call_2", "call_3", "call_4", "call_5">>

ItemIds == <<"fc_1", "fc_2", "fc_3", "fc_4", "fc_5">>

\* Ids the upstream never gave to an item it opened.
UnknownItem == "fc_x"

UnknownCall == "call_x"

ResponsesStatuses == {"completed", "incomplete", "failed", "cancelled", "queued"}

\* OpenAIResponsesProvider._map_stop_reason
ResponsesMapStopReason(status) ==
    CASE status = ""           -> "stop"
      [] status = "completed"  -> "stop"
      [] status = "incomplete" -> "length"
      [] status \in {"failed", "cancelled"} -> "error"
      [] OTHER                 -> "stop"

\* f"{item.call_id}|{item_id}"
CallKey(c, i) == <<c, i>>

\* The position of the call stored under key in current_tool_calls, 0 when absent.
FindCall(calls, key) ==
    IF \E n \in 1..Len(calls) : calls[n].id = key
    THEN CHOOSE n \in 1..Len(calls) : calls[n].id = key
    ELSE 0

\* call_key_by_item_id.get(item_id): every call opened with a non-empty item
\* id is recorded under it.
KeyByItem(calls, i) ==
    IF i # "" /\ \E n \in 1..Len(calls) : calls[n].item = i
    THEN calls[CHOOSE n \in 1..Len(calls) : calls[n].item = i].id
    ELSE NoId

\* call_key_by_item_id.get(item_id) if item_id else current_tool_call_key
ResolveKey(calls, i) == IF i # "" THEN KeyByItem(calls, i) ELSE current_key

\* The call an upstream event with item id i speaks about: the open call
\* with that item id, otherwise the most recently opened call.
Intended(calls, i) ==
    IF i # "" /\ \E n \in 1..Len(calls) : calls[n].item = i
    THEN CHOOSE n \in 1..Len(calls) : calls[n].item = i
    ELSE Len(calls)

\* The item ids an upstream event may carry: none, one of an open call, or
\* one of no open call.
ItemChoices(calls) == {"", UnknownItem} \cup {calls[n].item : n \in 1..Len(calls)}

\* str.startswith
StartsWith(full, prefix) ==
    /\ Len(prefix) <= Len(full)
    /\ SubSeq(full, 1, Len(prefix)) = prefix

\* The authoritative strings a done event may carry for a call whose
\* accumulated string is A: A itself, an extension of A, a different string.
FinalChoices(A) == {A, A \o <<"x">>, <<"y">>}

\* response.output_item.added with a function_call item.
RAdded ==
    \E hasItem \in BOOLEAN, a0 \in {<<>>, <<"z">>} :
        LET c   == CallIds[toolIndex + 1]
            i   == IF hasItem THEN ItemIds[toolIndex + 1] ELSE ""
            key == CallKey(c, i)
        IN  /\ Handle([NoEvent EXCEPT !.type = "output_item.added", !.call = c,
                                      !.item = i, !.text = a0],
                      <<ToolCallStart(key, toolIndex)>>)
            /\ current_tool_calls' = Append(current_tool_calls,
                                            [id |-> key, item |-> i, args |-> a0,
                                             index |-> toolIndex])
            /\ current_key' = key
            /\ toolIndex' = toolIndex + 1
            /\ arrived' = Append(arrived, <<>>)
            /\ UNCHANGED <<finished, upstreamStatus, stop_reason, stream_usage,
                           tool_use_blocks>>

\* response.function_call_arguments.delta
RDelta ==
    \E i \in ItemChoices(current_tool_calls) :
        LET n == FindCall(current_tool_calls, ResolveKey(current_tool_calls, i))
            t == Intended(current_tool_calls, i)
        IN  /\ current_tool_calls # <<>>
            /\ Handle([NoEvent EXCEPT !.type = "arguments.delta", !.item = i,
                                      !.text = Fragment],
                      IF n = 0 THEN <<>>
                      ELSE <<ToolCallDelta(current_tool_calls[n].index, Fragment)>>)
            /\ current_tool_calls' =
                  IF n = 0 THEN current_tool_calls
                  ELSE [current_tool_calls EXCEPT ![n].args = @ \o Fragment]
            /\ arrived' = [arrived EXCEPT ![t] = @ \o Fragment]
            /\ UNCHANGED <<finished, upstreamStatus, stop_reason, stream_usage,
                           tool_use_blocks, toolIndex, current_key>>

\* The parts and the accumulator after reconciling call n with the final
\* string F; strict tells output_item.done (elif final != current) from
\* arguments.done (else).
Reconcile(calls, n, F) ==
    LET A == calls[n].args
    IN  IF StartsWith(F, A)
        THEN [calls |-> [calls EXCEPT ![n].args = F],
              parts |-> IF F = A THEN <<>>
                        ELSE <<ToolCallDelta(calls[n].index,
                                             SubSeq(F, Len(A) + 1, Len(F)))>>]
        ELSE [calls |-> [calls EXCEPT ![n].args = F],
              parts |-> <<ToolCallDelta(calls[n].index, F)>>]

\* response.function_call_arguments.done; has = FALSE stands for arguments None.
RArgsDone ==
    \E i \in ItemChoices(current_tool_calls), has \in BOOLEAN :
        /\ current_tool_calls # <<>>
        /\ \E F \in IF has
                    THEN FinalChoices(current_tool_calls[
                                          Intended(current_tool_calls, i)].args)
                    ELSE {<<>>} :
            LET n == FindCall(current_tool_calls, ResolveKey(current_tool_calls, i))
                r == IF n = 0 \/ ~has
                     THEN [calls |-> current_tool_calls, parts |-> <<>>]
                     ELSE Reconcile(current_tool_calls, n, F)
            IN  /\ Handle([NoEvent EXCEPT !.type = "arguments.done", !.item = i,
                                          !.has = has, !.text = F],
                          r.parts)
                /\ current_tool_calls' = r.calls
        /\ UNCHANGED <<finished, upstreamStatus, stop_reason, stream_usage,
                       tool_use_blocks, toolIndex, current_key, arrived>>

\* The key output_item.done settles on: the item's own key, else the key
\* recorded for its item id, else the current key.
ItemDoneKey(calls, c, i) ==
    IF FindCall(calls, CallKey(c, i)) # 0 THEN CallKey(c, i)
    ELSE IF i # "" /\ KeyByItem(calls, i) # NoId THEN KeyByItem(calls, i)
    ELSE current_key

\* response.output_item.done with a function_call item: the item opened as
\* call t, under its own call id or under another one.
RItemDone ==
    \E t \in 1..Len(current_tool_calls), own \in BOOLEAN, has \in BOOLEAN :
        /\ \E F \in IF has THEN FinalChoices(current_tool_calls[t].args) ELSE {<<>>} :
            LET c == IF own THEN current_tool_calls[t].id[1] ELSE UnknownCall
                i == current_tool_calls[t].item
                n == FindCall(current_tool_calls, ItemDoneKey(current_tool_calls, c, i))
                r == IF n = 0 \/ ~has
                     THEN [calls |-> current_tool_calls, parts |-> <<>>]
                     ELSE Reconcile(current_tool_calls, n, F)
            IN  /\ Handle([NoEvent EXCEPT !.type = "output_item.done", !.call = c,
                                          !.item = i, !.has = has, !.text = F],
                          r.parts)
                /\ current_tool_calls' = r.calls
        /\ UNCHANGED <<finished, upstreamStatus, stop_reason, stream_usage,
                       tool_use_blocks, toolIndex, current_key, arrived>>

\* The usage a response.completed may carry: none, or input tokens of which
\* some were read from the cache.
UpstreamUsage == {<<>>} \cup {u \in (0..MaxTok) \X (0..MaxTok) : u[2] <= u[1]}

\* response.completed / response.done
RCompleted ==
    \E status \in ResponsesStatuses \cup {""}, u \in UpstreamUsage :
        LET mapped == ResponsesMapStopReason(status)
            reason == IF current_tool_calls # <<>> /\ mapped = "stop"
                      THEN "tool_use" ELSE mapped
        IN  /\ Return([NoEvent EXCEPT !.type = "completed", !.status = status,
                                      !.has = (u # <<>>), !.tokens = u],
                      <<StreamDonePart(reason)>>)
            /\ upstreamStatus' = status
            /\ stream_usage' =
                  IF u = <<>> THEN stream_usage
                  ELSE <<[input_tokens |-> u[1], output_tokens |-> 0,
                          cache_read_tokens |-> u[2], cache_write_tokens |-> 0]>>
            /\ UNCHANGED <<stop_reason, tool_use_blocks, toolIndex, current_tool_calls,
                           current_key, arrived>>

\* error, response.failed, or an exception of the upstream iterator.
RFailed ==
    \E kind \in {"error", "failed", "raise"} :
        /\ Return([NoEvent EXCEPT !.type = kind], <<StreamError>>)
        /\ UNCHANGED <<upstreamStatus, stop_reason, stream_usage, tool_use_blocks,
                       toolIndex, current_tool_calls, current_key, arrived>>

\* The upstream iterator is exhausted without response.completed: the
\* generator returns without a terminal part.
REnd ==
    /\ Return([NoEvent EXCEPT !.type = "end"], <<>>)
    /\ UNCHANGED <<upstreamStatus, stop_reason, stream_usage, tool_use_blocks,
                   toolIndex, current_tool_calls, current_key, arrived>>

ResponsesNext ==
    \/ RAdded /\ UNCHANGED exceptStrm
    \/ RDelta /\ UNCHANGED exceptStrm
    \/ RArgsDone /\ UNCHANGED exceptStrm
    \/ RItemDone /\ UNCHANGED exceptStrm
    \/ RCompleted /\ UNCHANGED exceptStrm
    \/ RFailed /\ UNCHANGED exceptStrm
    \/ REnd /\ UNCHANGED exceptStrm

(***************************************************************************)
(* OpenAICodexResponsesProvider._stream_codex                              *)
(***************************************************************************)
\* OpenAICodexResponsesProvider._map_stop_reason
\* A plausible slip: a cancelled response falls through to the default.
CodexMapStopReasonLax(status) ==
    CASE status = "completed"  -> "stop"
      [] status = "incomplete" -> "length"
      [] status = "failed"     -> "error"
      [] OTHER                 -> "stop"

CodexMapStopReason(status) ==
    CASE status = "completed"  -> "stop"
      [] status = "incomplete" -> "length"
      [] status \in {"failed", "cancelled"} -> "error"
      [] OTHER                 -> "stop"

\* f"{call_id}|{item_id}" if isinstance(item_id, str) else call_id
FullId(c, i) == IF i # "" THEN <<c, i>> ELSE <<c>>

\* response.output_item.added with a function_call item.
CAdded ==
    \E hasItem \in BOOLEAN :
        LET c   == CallIds[toolIndex + 1]
            i   == IF hasItem THEN ItemIds[toolIndex + 1] ELSE ""
            key == FullId(c, i)
        IN  /\ Handle([NoEvent EXCEPT !.type = "output_item.added", !.call = c,
                                      !.item = i],
                      <<ToolCallStart(key, toolIndex)>>)
            /\ current_tool_calls' = Append(current_tool_calls,
                                            [id |-> key, item |-> i, args |-> <<>>,
                                             index |-> toolIndex])
            /\ current_key' = key
            /\ toolIndex' = toolIndex + 1
            /\ arrived' = Append(arrived, <<>>)
            /\ UNCHANGED <<finished, upstreamStatus, stop_reason, stream_usage,
                           tool_use_blocks>>

\* response.function_call_arguments.delta: the item id of the event is not
\* read, the fragment goes to last_tool_call_id.
CDelta ==
    \E i \in ItemChoices(current_tool_calls) :
        LET n == FindCall(current_tool_calls, current_key)
            t == Intended(current_tool_calls, i)
        IN  /\ current_tool_calls # <<>>
            /\ Handle([NoEvent EXCEPT !.type = "arguments.delta", !.item = i,
                                      !.text = Fragment],
                      IF n = 0 THEN <<>>
                      ELSE <<ToolCallDelta(current_tool_calls[n].index, Fragment)>>)
            /\ current_tool_calls' =
                  IF n = 0 THEN current_tool_calls
                  ELSE [current_tool_calls EXCEPT ![n].args = @ \o Fragment]
            /\ arrived' = [arrived EXCEPT ![t] = @ \o Fragment]
            /\ UNCHANGED <<finished, upstreamStatus, stop_reason, stream_usage,
                           tool_use_blocks, toolIndex, current_key>>

\* response.function_call_arguments.done and response.output_item.done match
\* no branch of the event loop: the event is consumed and nothing changes.
CDoneEvent ==
    \E kind \in {"arguments.done", "output_item.done"},
       t \in 1..Len(current_tool_calls) :
        \E F \in FinalChoices(current_tool_calls[t].args) :
            /\ Handle([NoEvent EXCEPT !.type = kind, !.call = current_tool_calls[t].id[1],
                                      !.item = current_tool_calls[t].item,
                                      !.has = TRUE, !.text = F],
                      <<>>)
            /\ UNCHANGED <<finished, upstreamStatus, stop_reason, stream_usage,
                           tool_use_blocks, toolIndex, current_tool_calls, current_key,
                           arrived>>

\* response.completed / response.done whose response is a dict.
CCompleted ==
    \E status \in ResponsesStatuses \cup {""}, u \in UpstreamUsage :
        LET mapped == CodexMapStopReason(status)
            reason == IF current_tool_calls # <<>> /\ mapped = "stop"
                      THEN "tool_use" ELSE mapped
        IN  /\ Return([NoEvent EXCEPT !.type = "completed", !.status = status,
                                      !.has = (u # <<>>), !.tokens = u],
                      <<StreamDonePart(reason)>>)
            /\ upstreamStatus' = status
            /\ stream_usage' =
                  IF u = <<>> THEN stream_usage
                  ELSE <<[input_tokens |-> u[1], output_tokens |-> 0,
                          cache_read_tokens |-> u[2], cache_write_tokens |-> 0]>>
            /\ UNCHANGED <<stop_reason, tool_use_blocks, toolIndex, current_tool_calls,
                           current_key, arrived>>

\* response.completed whose response is not a dict: nothing is yielded and
\* the loop goes on.
CCompletedNoResponse ==
    /\ Handle([NoEvent EXCEPT !.type = "completed"], <<>>)
    /\ UNCHANGED <<finished, upstreamStatus, stop_reason, stream_usage, tool_use_blocks,
                   toolIndex, current_tool_calls, current_key, arrived>>

\* response.failed, error, or an exception while reading the stream.
CFailed ==
    \E kind \in {"error", "failed", "raise"} :
        /\ Return([NoEvent EXCEPT !.type = kind], <<StreamError>>)
        /\ UNCHANGED <<upstreamStatus, stop_reason, stream_usage, tool_use_blocks,
                       toolIndex, current_tool_calls, current_key, arrived>>

\* The event stream ends without response.completed.
CEnd ==
    /\ Return([NoEvent EXCEPT !.type = "end"], <<>>)
    /\ UNCHANGED <<upstreamStatus, stop_reason, stream_usage, tool_use_blocks,
                   toolIndex, current_tool_calls, current_key, arrived>>

CodexNext ==
    \/ CAdded /\ UNCHANGED exceptStrm
    \/ CDelta /\ UNCHANGED exceptStrm
    \/ CDoneEvent /\ UNCHANGED exceptStrm
    \/ CCompleted /\ UNCHANGED exceptStrm
    \/ CCompletedNoResponse /\ UNCHANGED exceptStrm
    \/ CFailed /\ UNCHANGED exceptStrm
    \/ CEnd /\ UNCHANGED exceptStrm

(***************************************************************************)
(* Tool executions and the shared cancel event                             *)
(***************************************************************************)
Tools == {"bash", "grep", "find", "read"}

\* The tools whose execute() waits on cancel_event next to its subprocess:
\* BashTool, GrepTool and FindTool. ReadTool lists a directory through
\* BashTool().execute(BashParams(...)) and hands no cancel_event on.
ObservesCancel(t) == t \in {"bash", "grep", "find"}

\* The tools whose wait carries a timeout: BashTool.execute, also when it
\* runs for ReadTool (asyncio.wait_for with params.timeout).
HasTimeout(t) == t \in {"bash", "read"}

\* _kill_process_tree kills the process group (os.killpg); GrepTool and
\* FindTool call proc.kill(). A subprocess that has exited is left as it is.
Kill(t, p) ==
    IF p # "running" THEN p
    ELSE IF t \in {"bash", "read"} THEN "killed_group" ELSE "killed"

ToolIdle == /\ cancel_event = FALSE
            /\ tpc = [t \in Tools |-> "idle"]
            /\ tproc = [t \in Tools |-> "none"]
            /\ tresult = [t \in Tools |-> "none"]

\* execute() starts its subprocess and waits.
ToolStart(t) ==
    /\ tpc[t] = "idle"
    /\ tpc' = [tpc EXCEPT ![t] = "waiting"]
    /\ tproc' = [tproc EXCEPT ![t] = "running"]
    /\ UNCHANGED <<cancel_event, tresult>>

\* The interrupt sets the shared cancel event.
SetCancel ==
    /\ ~cancel_event
    /\ cancel_event' = TRUE
    /\ UNCHANGED <<tpc, tproc, tresult>>

\* The subprocess ends on its own.
ProcExit(t) ==
    /\ tproc[t] = "running"
    /\ tproc' = [tproc EXCEPT ![t] = "exited"]
    /\ UNCHANGED <<cancel_event, tpc, tresult>>

\* The wait is woken by cancel_event: the subprocess is killed and the
\* aborted result is returned.
ToolCancelled(t) ==
    /\ tpc[t] = "waiting"
    /\ cancel_event
    /\ ObservesCancel(t)
    /\ tproc' = [tproc EXCEPT ![t] = Kill(t, @)]
    /\ tresult' = [tresult EXCEPT ![t] = "aborted"]
    /\ tpc' = [tpc EXCEPT ![t] = "returned"]
    /\ UNCHANGED cancel_event

\* The timeout of the wait passes with the command still running.
ToolTimeout(t) ==
    /\ tpc[t] = "waiting"
    /\ HasTimeout(t)
    /\ tproc[t] = "running"
    /\ tproc' = [tproc EXCEPT ![t] = Kill(t, @)]
    /\ tresult' = [tresult EXCEPT ![t] = "timed_out"]
    /\ tpc' = [tpc EXCEPT ![t] = "returned"]
    /\ UNCHANGED cancel_event

\* communicate() completed: the output is returned.
ToolCompleted(t) ==
    /\ tpc[t] = "waiting"
    /\ tproc[t] = "exited"
    /\ tresult' = [tresult EXCEPT ![t] = "ok"]
    /\ tpc' = [tpc EXCEPT ![t] = "returned"]
    /\ UNCHANGED <<cancel_event, tproc>>

ToolsNext ==
    \/ \E t \in Tools : ToolStart(t) /\ UNCHANGED exceptTool
    \/ SetCancel /\ UNCHANGED exceptTool
    \/ \E t \in Tools : ProcExit(t) /\ UNCHANGED exceptTool
    \/ \E t \in Tools : ToolCancelled(t) /\ UNCHANGED exceptTool
    \/ \E t \in Tools : ToolTimeout(t) /\ UNCHANGED exceptTool
    \/ \E t \in Tools : ToolCompleted(t) /\ UNCHANGED exceptTool

(***************************************************************************)
(* Session store: entry ids, parent links, persistence, load and fork      *)
(***************************************************************************)
EntryKinds == {"message", "model_change", "thinking_level_change", "compaction",
               "custom_message"}

NoLeaf == 0

\* One record of the session file: the type tag, id, parent_id and payload
\* of the entry, in this order.
FormatEntry(e) == <<e.kind, e.id, e.parent_id, e.payload>>

ParseEntry(line) ==
    [id |-> line[2], parent_id |-> line[3], kind |-> line[1], payload |-> line[4]]

RECURSIVE ParseLines(_)
ParseLines(lines) ==
    IF lines = <<>> THEN <<>>
    ELSE <<ParseEntry(Head(lines))>> \o ParseLines(Tail(lines))

\* The number of parent links from entry id up to the head.
RECURSIVE Depth(_, _)
Depth(es, id) ==
    IF id = NoLeaf \/ ~(\E i \in 1..Len(es) : es[i].id = id) THEN 0
    ELSE 1 + Depth(es, (CHOOSE e \in {es[i] : i \in 1..Len(es)} : e.id = id).parent_id)

\* load: the leaf is the end of the longest parent path from the head.
DeepestLeaf(es) ==
    IF es = <<>> THEN NoLeaf
    ELSE LET ids == {es[i].id : i \in 1..Len(es)}
         IN  CHOOSE id \in ids : \A other \in ids : Depth(es, other) <= Depth(es, id)

\* The ids on the path from the head to id.
RECURSIVE ChainIds(_, _)
ChainIds(es, id) ==
    IF id = NoLeaf \/ ~(\E i \in 1..Len(es) : es[i].id = id) THEN {}
    ELSE {id} \cup ChainIds(es, (CHOOSE e \in {es[i] : i \in 1..Len(es)} : e.id = id).parent_id)

\* The leaf chain: the entries on the path from the head to the leaf, in
\* the order of the entry list.
OnChain(es, leaf) ==
    LET ids == ChainIds(es, leaf)
        Keep(e) == e.id \in ids
    IN  SelectSeq(es, Keep)

\* A plausible slip: the new entry is not linked to the leaf.
ParentUnlinked(leaf) == NoLeaf

\* append: parent_id := current leaf id.
ParentOfNew(leaf) == leaf

\* A plausible slip: only messages are written when they are appended.
PersistMessagesOnly(lines, e) ==
    IF e.kind = "message" THEN Append(lines, FormatEntry(e)) ELSE lines

\* append writes one formatted record before it returns.
Persist(lines, e) == Append(lines, FormatEntry(e))

StoreIdle == /\ stEntries = <<>>
             /\ stLeaf = NoLeaf
             /\ stNextId = 1
             /\ stFiles = <<<<>>>>
             /\ stFile = 1
             /\ stOp = "none"
             /\ stBefore = [entries |-> <<>>, leaf |-> NoLeaf, files |-> <<<<>>>>]

Remember == stBefore' = [entries |-> stEntries, leaf |-> stLeaf, files |-> stFiles]

\* append(entry), append_message, append_compaction: the entry gets its id
\* and parent_id, is written to the session file and becomes the leaf.
StoreAppend ==
    \E kind \in EntryKinds :
        LET e == [id |-> stNextId, parent_id |-> ParentOfNew(stLeaf), kind |-> kind,
                  payload |-> stNextId]
        IN  /\ stNextId <= MaxStored
            /\ stEntries' = Append(stEntries, e)
            /\ stFiles' = [stFiles EXCEPT ![stFile] = Persist(@, e)]
            /\ stLeaf' = e.id
            /\ stNextId' = stNextId + 1
            /\ stOp' = "append"
            /\ Remember
            /\ UNCHANGED stFile

\* load(path): all records are parsed, then the leaf chain is derived.
StoreLoad ==
    \E f \in 1..Len(stFiles) :
        LET es == ParseLines(stFiles[f])
        IN  /\ stEntries' = es
            /\ stLeaf' = DeepestLeaf(es)
            /\ stFile' = f
            /\ stOp' = "load"
            /\ Remember
            /\ UNCHANGED <<stNextId, stFiles>>

\* fork(entry_id): a new session file that starts with a copy of the chain
\* up to and including entry_id; the copy is the session in memory.
StoreFork ==
    \E i \in 1..Len(stEntries) :
        LET chain == OnChain(stEntries, stEntries[i].id)
            RECURSIVE Lines(_)
            Lines(es) == IF es = <<>> THEN <<>>
                         ELSE <<FormatEntry(Head(es))>> \o Lines(Tail(es))
        IN  /\ Len(stFiles) < MaxFiles
            /\ stEntries[i].id \in ChainIds(stEntries, stLeaf)
            /\ stFiles' = Append(stFiles, Lines(chain))
            /\ stFile' = Len(stFiles) + 1
            /\ stEntries' = chain
            /\ stLeaf' = stEntries[i].id
            /\ stOp' = "fork"
            /\ Remember
            /\ UNCHANGED stNextId

StoreNext ==
    \/ StoreAppend /\ UNCHANGED exceptStore
    \/ StoreLoad /\ UNCHANGED exceptStore
    \/ StoreFork /\ UNCHANGED exceptStore

(***************************************************************************)
(* OpenAICodexResponsesProvider._stream_codex: the request loop            *)
(***************************************************************************)
_MAX_RETRIES == 3

_BASE_DELAY_MS == 1000

\* session.post raised instead of returning a response.
NetworkFailure == 0

\* What one request can come back with: a network failure or an HTTP status.
Outcomes == {NetworkFailure, 200, 400, 401, 429, 500, 501, 502, 503, 504}

_is_retryable_status(status) == status \in {429, 500, 502, 503, 504}

RECURSIVE Pow2(_)
Pow2(n) == IF n = 0 THEN 1 ELSE 2 * Pow2(n - 1)

\* delay = _BASE_DELAY_MS * (2**attempt) / 1000 seconds, kept in ms.
Delay(attempt) == _BASE_DELAY_MS * Pow2(attempt)

RetryIdle == /\ rState = "requesting"
             /\ rResponses = <<>>
             /\ rWaits = <<>>
             /\ rErrors = <<>>

\* One pass of `for attempt in range(_MAX_RETRIES + 1)`: the request is
\* posted and its outcome handled.
Attempt ==
    \E r \in Outcomes :
        LET attempt == Len(rResponses)
        IN  /\ rState = "requesting"
            /\ attempt < _MAX_RETRIES + 1
            /\ rResponses' = Append(rResponses, r)
            /\ IF r = NetworkFailure
               THEN \* except Exception as e: yield StreamError(error=str(e))
                    /\ rState' = "failed"
                    /\ rErrors' = Append(rErrors, r)
                    /\ UNCHANGED rWaits
               ELSE IF r < 400
               THEN /\ rState' = "streaming"
                    /\ UNCHANGED <<rWaits, rErrors>>
               ELSE IF attempt < _MAX_RETRIES /\ _is_retryable_status(r)
               THEN /\ rWaits' = Append(rWaits, Delay(attempt))
                    /\ UNCHANGED <<rState, rErrors>>
               ELSE /\ rState' = "failed"
                    /\ rErrors' = Append(rErrors, r)
                    /\ UNCHANGED rWaits

RetryNext == Attempt /\ UNCHANGED exceptRetry

(***************************************************************************)
(* poll_for_github_token                                                   *)
(***************************************************************************)
PollResponses == {"authorization_pending", "slow_down", "expired_token",
                  "access_token", "access_denied"}

Max(a, b) == IF a >= b THEN a ELSE b

\* A plausible slip: slow_down leaves the interval as it is.
IntervalKept(interval, error) == interval

\* elif error == "slow_down": poll_interval += 5
IntervalAfter(interval, error) ==
    IF error = "slow_down" THEN interval + 5 ELSE interval

\* A plausible slip: one more poll at the very second of the deadline.
LoopContinuesAtDeadline(now, dl) == now <= dl

\* while time.time() < deadline
LoopContinues(now, dl) == now < dl

PollIdle == /\ pNow = 0
            /\ deadline = 0
            /\ poll_interval = 0
            /\ polls = <<>>
            /\ pResult = "none"

\* deadline = time.time() + expires_in; poll_interval = max(1, interval)
PollInit == /\ pNow = 0
            /\ deadline \in 1..MaxExpires
            /\ poll_interval \in {Max(1, interval) : interval \in 0..MaxInterval}
            /\ polls = <<>>
            /\ pResult = "none"

\* One pass of `while time.time() < deadline`: the token endpoint is polled
\* and the response handled; after authorization_pending and slow_down the
\* client sleeps, and asyncio.sleep may return late.
Poll ==
    \E response \in PollResponses, late \in 0..1 :
        LET interval == IntervalAfter(poll_interval, response)
        IN  /\ pResult = "none"
            /\ LoopContinues(pNow, deadline)
            /\ polls' = Append(polls, [at |-> pNow, response |-> response,
                                       before |-> poll_interval, interval |-> interval])
            /\ poll_interval' = interval
            /\ pResult' = CASE response = "access_token"  -> "token"
                            [] response = "expired_token" -> "timeout"
                            [] response \in {"authorization_pending", "slow_down"} -> "none"
                            [] OTHER -> "error"
            /\ pNow' = IF response \in {"authorization_pending", "slow_down"}
                       THEN pNow + interval + late
                       ELSE pNow
            /\ UNCHANGED deadline

\* The loop ends at the deadline: TimeoutError("Device code flow timed out").
PollDeadline ==
    /\ pResult = "none"
    /\ ~LoopContinues(pNow, deadline)
    /\ pResult' = "timeout"
    /\ UNCHANGED <<pNow, deadline, poll_interval, polls>>

PollNext ==
    \/ Poll /\ UNCHANGED exceptPoll
    \/ PollDeadline /\ UNCHANGED exceptPoll

(***************************************************************************)
(* OAuth credential stores (llm/oauth/copilot.py, llm/oauth/openai.py)     *)
(*                                                                         *)
(* Both stores keep one JSON file under ~/.kon; the access token is        *)
(* copilot_token / access and its expiry expires_at / expires, in ms.      *)
(* Several processes of the program share the file: get_valid_token runs   *)
(* in this process while another process may be saving.                    *)
(***************************************************************************)
Stores == {"copilot", "openai"}

\* None: no credentials, and the text of a file that holds no record.
NoCreds == [access |-> 0, expires |-> 0]

NotLoggedIn == 0

NoFile == [exists |-> FALSE, content |-> NoCreds, mode |-> "none"]

\* The lifetimes in seconds the token endpoints grant.
Lifetimes == {30, 120}

\* What the server sends: Copilot an absolute expires_at in seconds, which
\* lies five minutes after the value the store keeps; OpenAI an expires_in.
ServerValues(store, now) ==
    IF store = "copilot"
    THEN {now \div 1000 + 300 + d : d \in Lifetimes}
    ELSE Lifetimes

\* expires_at = data["expires_at"] * 1000 - 5 * 60 * 1000 (copilot)
\* expires = int(time.time() * 1000) + expires_in * 1000 (openai)
NewExpiry(store, now, secs) ==
    IF store = "copilot" THEN secs * 1000 - 5 * 60 * 1000 ELSE now + secs * 1000

\* path.exists() is false -> None; json.loads of a text that holds no
\* complete record raises JSONDecodeError / KeyError -> None.
load_credentials(f) ==
    IF ~f.exists THEN NoCreds
    ELSE IF f.content = NoCreds THEN NoCreds
    ELSE f.content

\* if time.time() * 1000 >= creds.expires_at - 60_000
NeedsRefresh(now, creds) == now >= creds.expires - 60000

\* open(path, "w") of write_text: an existing file is truncated and keeps its
\* mode, a new one is created with the mode the umask leaves.
Umasks == {"022", "077"}

CreateMode(umask) == IF umask = "077" THEN "0600" ELSE "0644"

Truncated(f, umask) ==
    IF f.exists THEN [f EXCEPT !.content = NoCreds]
    ELSE [exists |-> TRUE, content |-> NoCreds, mode |-> CreateMode(umask)]

\* The file once save_credentials has returned.
SavedFile(c) == [exists |-> TRUE, content |-> c, mode |-> "0600"]

RefreshOutcomes == {"ok", "http_error", "bad_response"}

NoCall == [called |-> FALSE, now |-> 0, old |-> NoCreds, new |-> NoCreds,
           result |-> NotLoggedIn, refreshes |-> 0, outcome |-> "none",
           before |-> NoFile, after |-> NoFile]

NoLoad == [done |-> FALSE, result |-> NoCreds, old |-> NoCreds, new |-> NoCreds]

NoSave == [step |-> "idle", creds |-> NoCreds]

CredIdle ==
    /\ credStore = "copilot"
    /\ cNow = 0
    /\ credFile = NoFile
    /\ saving = NoSave
    /\ credOld = NoCreds
    /\ credLoad = NoLoad
    /\ gvt = NoCall
    /\ nextToken = 1

\* Not logged in, or logged in by an earlier run: a saved file.
CredInit ==
    /\ credStore \in Stores
    /\ cNow = 0
    /\ credOld \in {NoCreds} \cup {[access |-> 1, expires |-> 1000 * d] : d \in Lifetimes}
    /\ credFile = IF credOld = NoCreds THEN NoFile ELSE SavedFile(credOld)
    /\ saving = NoSave
    /\ credLoad = NoLoad
    /\ gvt = NoCall
    /\ nextToken = 2

Called(result, refreshes, outcome, after) ==
    [called |-> TRUE, now |-> cNow, old |-> credOld, new |-> saving.creds,
     result |-> result, refreshes |-> refreshes, outcome |-> outcome,
     before |-> credFile, after |-> after]

\* get_valid_token / get_valid_openai_token. The refresh saves only after the
\* exchange and the checks of the response succeeded; the states its save
\* goes through are those of SaveOpen .. SaveChmod.
GetValidToken ==
    LET creds == load_credentials(credFile) IN
    \/ /\ creds = NoCreds
       /\ gvt' = Called(NotLoggedIn, 0, "none", credFile)
       /\ UNCHANGED <<credFile, credOld, nextToken>>
    \/ /\ creds # NoCreds
       /\ ~NeedsRefresh(cNow, creds)
       /\ gvt' = Called(creds.access, 0, "none", credFile)
       /\ UNCHANGED <<credFile, credOld, nextToken>>
    \/ /\ creds # NoCreds
       /\ NeedsRefresh(cNow, creds)
       /\ \E outcome \in RefreshOutcomes :
            IF outcome = "ok"
            THEN /\ nextToken <= MaxIssued
                 /\ \E secs \in ServerValues(credStore, cNow) :
                      LET refreshed == [access |-> nextToken,
                                        expires |-> NewExpiry(credStore, cNow, secs)]
                      IN /\ credFile' = SavedFile(refreshed)
                         /\ credOld' = refreshed
                         /\ gvt' = Called(refreshed.access, 1, outcome, SavedFile(refreshed))
                 /\ nextToken' = nextToken + 1
            ELSE /\ gvt' = Called(NotLoggedIn, 1, outcome, credFile)
                 /\ UNCHANGED <<credFile, credOld, nextToken>>
    /\ UNCHANGED <<credStore, cNow, saving, credLoad>>

\* save_credentials in another process (a login or a refresh there), one file
\* operation at a time: path.write_text opens the file for writing ...
SaveOpen ==
    /\ saving.step = "idle"
    /\ nextToken <= MaxIssued
    /\ \E secs \in ServerValues(credStore, cNow), umask \in Umasks :
         /\ saving' = [step |-> "opened",
                       creds |-> [access |-> nextToken,
                                  expires |-> NewExpiry(credStore, cNow, secs)]]
         /\ credFile' = Truncated(credFile, umask)
    /\ nextToken' = nextToken + 1
    /\ UNCHANGED <<credStore, cNow, credOld, credLoad, gvt>>

\* ... writes the text and closes it ...
SaveWrite ==
    /\ saving.step = "opened"
    /\ credFile' = [credFile EXCEPT !.content = saving.creds]
    /\ saving' = [saving EXCEPT !.step = "written"]
    /\ UNCHANGED <<credStore, cNow, credOld, credLoad, gvt, nextToken>>

\* ... and path.chmod(0o600) follows.
SaveChmod ==
    /\ saving.step = "written"
    /\ credFile' = [credFile EXCEPT !.mode = "0600"]
    /\ credOld' = credFile.content
    /\ saving' = NoSave
    /\ UNCHANGED <<credStore, cNow, credLoad, gvt, nextToken>>

\* load_credentials in this process (is_logged_in, the provider's second load).
Load ==
    /\ credLoad' = [done |-> TRUE, result |-> load_credentials(credFile),
                  old |-> credOld, new |-> saving.creds]
    /\ UNCHANGED <<credStore, cNow, credFile, saving, credOld, gvt, nextToken>>

\* Thirty seconds pass.
Tick ==
    /\ cNow < 30000 * MaxClock
    /\ cNow' = cNow + 30000
    /\ UNCHANGED <<credStore, credFile, saving, credOld, credLoad, gvt, nextToken>>

CredNext ==
    \/ GetValidToken /\ UNCHANGED exceptCred
    \/ SaveOpen /\ UNCHANGED exceptCred
    \/ SaveWrite /\ UNCHANGED exceptCred
    \/ SaveChmod /\ UNCHANGED exceptCred
    \/ Load /\ UNCHANGED exceptCred
    \/ Tick /\ UNCHANGED exceptCred

(***************************************************************************)
(* ChatGPT PKCE login (llm/oauth/openai.py)                                *)
(*                                                                         *)
(* state = _create_state() is "issued"; "other" is any different state and *)
(* "none" a missing or blank query value (parse_qs drops blank values).    *)
(***************************************************************************)
LoginStates == {"issued", "other", "none"}

LoginCodes == {"code", "none"}

CallbackRequests ==
    [path : {"/auth/callback", "/favicon.ico"}, state : LoginStates, code : LoginCodes]

\* What the user may paste: nothing, the callback URL, its query string,
\* code#state, or the bare code.
ManualInputs ==
    {[form |-> "empty", code |-> "none", state |-> "none"],
     [form |-> "bare", code |-> "code", state |-> "none"]}
    \cup [form : {"url", "query", "hash"}, code : LoginCodes, state : LoginStates]

\* _parse_manual_input: <<code, state>>. A bare text is taken as the code and
\* has no state; the other forms give the code and the state they carry.
_parse_manual_input(input) ==
    IF input.form = "empty" THEN <<"none", "none">>
    ELSE IF input.form \in {"url", "query", "hash"} THEN <<input.code, input.state>>
    ELSE <<input.code, "none">>

\* The status the callback handler answers a request with.
CallbackStatus(req) ==
    IF req.path # "/auth/callback" THEN 404
    ELSE IF req.state # "issued" \/ req.code = "none" THEN 400
    ELSE 200

\* if parsed_state and parsed_state != state: raise RuntimeError
ManualStateRejected(parsed_state) == parsed_state # "none" /\ parsed_state # "issued"

NoRequest == [path |-> "", state |-> "none", code |-> "none", status |-> 0]

NoAccepted == [via |-> "none", code |-> "none", state |-> "none"]

LoginIdle ==
    /\ lgConfig = [server |-> FALSE, manual |-> FALSE]
    /\ lgPhase = "idle"
    /\ lgRequests = 0
    /\ lgLast = NoRequest
    /\ lgMismatch = FALSE
    /\ lgAccepted = NoAccepted
    /\ lgExchanges = 0

\* login() up to its first await: the callback server is started unless the
\* port is taken (OSError), on_manual_input is given or not.
LoginInit ==
    /\ lgConfig \in [server : BOOLEAN, manual : BOOLEAN]
    /\ lgPhase = "waiting"
    /\ lgRequests = 0
    /\ lgLast = NoRequest
    /\ lgMismatch = FALSE
    /\ lgAccepted = NoAccepted
    /\ lgExchanges = 0

\* The callback server handles one request; a 200 sets code_future, and
\* login() goes on to the exchange with its result.
Callback ==
    /\ lgPhase = "waiting"
    /\ lgConfig.server
    /\ lgRequests < MaxRequests
    /\ \E req \in CallbackRequests :
         /\ lgLast' = [path |-> req.path, state |-> req.state, code |-> req.code,
                       status |-> CallbackStatus(req)]
         /\ lgMismatch' = (lgMismatch \/ (req.path = "/auth/callback" /\ req.state = "other"))
         /\ IF CallbackStatus(req) = 200
            THEN /\ lgPhase' = "exchanging"
                 /\ lgAccepted' = [via |-> "callback", code |-> req.code, state |-> req.state]
            ELSE UNCHANGED <<lgPhase, lgAccepted>>
    /\ lgRequests' = lgRequests + 1
    /\ UNCHANGED <<lgConfig, lgExchanges>>

\* manual_task completes first (or is the only way in).
ManualInput ==
    /\ lgPhase = "waiting"
    /\ lgConfig.manual
    /\ \E input \in ManualInputs :
         LET parsed == _parse_manual_input(input)
             parsed_code == parsed[1]
             parsed_state == parsed[2]
         IN /\ lgMismatch' = (lgMismatch \/ parsed_state = "other")
            /\ IF ManualStateRejected(parsed_state)
               THEN /\ lgPhase' = "state_mismatch"
                    /\ UNCHANGED lgAccepted
               ELSE IF parsed_code = "none"
               THEN /\ lgPhase' = "timed_out"
                    /\ UNCHANGED lgAccepted
               ELSE /\ lgPhase' = "exchanging"
                    /\ lgAccepted' = [via |-> "manual", code |-> parsed_code,
                                      state |-> parsed_state]
    /\ UNCHANGED <<lgConfig, lgRequests, lgLast, lgExchanges>>

\* asyncio.wait(..., timeout=300) / wait_for(..., timeout=300) run out, or
\* there is neither a server nor a manual input: code stays None.
LoginTimeout ==
    /\ lgPhase = "waiting"
    /\ lgConfig.server \/ ~lgConfig.manual
    /\ lgPhase' = "timed_out"
    /\ UNCHANGED <<lgConfig, lgRequests, lgLast, lgMismatch, lgAccepted, lgExchanges>>

\* _exchange_code_for_tokens, then save_openai_credentials when it succeeded.
Exchange ==
    /\ lgPhase = "exchanging"
    /\ lgExchanges' = lgExchanges + 1
    /\ lgPhase' \in {"logged_in", "failed"}
    /\ UNCHANGED <<lgConfig, lgRequests, lgLast, lgMismatch, lgAccepted>>

LoginNext ==
    \/ Callback /\ UNCHANGED exceptLogin
    \/ ManualInput /\ UNCHANGED exceptLogin
    \/ LoginTimeout /\ UNCHANGED exceptLogin
    \/ Exchange /\ UNCHANGED exceptLogin


(***************************************************************************)
(* Tool failures (tools/read.py, write.py, edit.py, bash.py, grep.py,      *)
(* find.py): what execute does with each outcome of its file and           *)
(* subprocess operations                                                   *)
(***************************************************************************)
AllTools == {"read", "write", "edit", "bash", "grep", "find"}

\* The environment of one call: the path, and how each operation on it ends.
ToolEnvs ==
    [exists : BOOLEAN,                  \* Path.exists() / os.path.exists
     kind   : {"file", "dir", "other"}, \* is_file() / is_dir()
     image  : BOOLEAN,                  \* is_image_file
     read   : {"ok", "PermissionError", "UnicodeDecodeError"},
     write  : {"ok", "PermissionError"},
     mkdir  : {"ok", "PermissionError"},
     spawn  : {"ok", "OSError"},        \* create_subprocess_shell / _exec
     binary : BOOLEAN,                  \* ensure_tool found rg / fd
     found  : BOOLEAN]                  \* old_string in content

\* UnicodeDecodeError is a ValueError, the others are OSErrors.
IsOSError(e) == e \in {"PermissionError", "OSError", "IsADirectoryError"}

Succeeded == [raised |-> "", success |-> TRUE, display |-> TRUE]

Failed == [raised |-> "", success |-> FALSE, display |-> TRUE]

Raised(e) == [raised |-> e, success |-> FALSE, display |-> FALSE]

\* BashTool.execute: the spawn sits inside try ... except Exception.
BashExecute(env) == IF env.spawn # "ok" THEN Failed ELSE Succeeded

\* ReadTool.execute: only OSError is caught around read_file.
ReadExecute(env) ==
    IF ~env.exists THEN Failed
    ELSE IF env.kind = "dir" THEN BashExecute(env)
    ELSE IF env.kind # "file" THEN Failed
    ELSE IF env.image THEN (IF env.read # "ok" THEN Failed ELSE Succeeded)
    ELSE IF env.read = "ok" THEN Succeeded
    ELSE IF IsOSError(env.read) THEN Failed
    ELSE Raised(env.read)

\* WriteTool.execute: mkdir runs before the try, the write inside it.
WriteExecute(env) ==
    IF env.mkdir # "ok" THEN Raised(env.mkdir)
    ELSE IF env.write # "ok" THEN Failed
    ELSE Succeeded

\* EditTool.execute: neither open is guarded.
EditExecute(env) ==
    IF ~env.exists THEN Failed
    ELSE IF env.kind = "dir" THEN Raised("IsADirectoryError")
    ELSE IF env.read # "ok" THEN Raised(env.read)
    ELSE IF ~env.found THEN Failed
    ELSE IF env.write # "ok" THEN Raised(env.write)
    ELSE Succeeded

\* GrepTool.execute / FindTool.execute: create_subprocess_exec is not guarded.
SearchExecute(env) ==
    IF ~env.binary THEN Failed
    ELSE IF ~env.exists THEN Failed
    ELSE IF env.spawn # "ok" THEN Raised(env.spawn)
    ELSE Succeeded

ToolExecute(tool, env) ==
    CASE tool = "read" -> ReadExecute(env)
      [] tool = "write" -> WriteExecute(env)
      [] tool = "edit" -> EditExecute(env)
      [] tool = "bash" -> BashExecute(env)
      [] OTHER -> SearchExecute(env)

ToolCallInit ==
    /\ callArgs \in [tool : AllTools, env : ToolEnvs]
    /\ callRet = Failed
    /\ called = FALSE

ToolCall ==
    /\ ~called
    /\ callRet' = ToolExecute(callArgs.tool, callArgs.env)
    /\ called' = TRUE
    /\ UNCHANGED callArgs

ToolCallNext == ToolCall /\ UNCHANGED exceptCall


(***************************************************************************)
(* Events outside the happy path in the Responses-style parsers            *)
(* (openai_responses.py _process_stream, openai_codex_responses.py         *)
(* _stream_codex / _parse_sse): unknown events, malformed data frames and  *)
(* the terminal error / response.failed events with their messages         *)
(***************************************************************************)
ResponsesProviders == {"responses", "codex"}

ProviderMessages == {"", "rate limit", "overloaded"}

\* message is the event's own field, detail is response.error.message; ""
\* stands for a field that is absent.
OffPathEvents ==
    [type : {"error"}, message : ProviderMessages, detail : {""}, code : {"429", "500"}]
    \cup [type : {"response.failed"}, message : {""}, detail : ProviderMessages, code : {""}]
    \cup [type : {"unknown", "malformed"}, message : {""}, detail : {""}, code : {""}]

\* What the events handled so far left in the parser.
ParserStates == [text : BOOLEAN, calls : 0..MaxCalls]

\* The message the provider sent with a terminal event.
ProviderMessage(ev) == IF ev.type = "error" THEN ev.message ELSE ev.detail

Continues(st) == [parts |-> <<>>, ended |-> FALSE, state |-> st]

Fails(text, st) ==
    [parts |-> <<[type |-> "error", error |-> text]>>, ended |-> TRUE, state |-> st]

\* _process_stream: f"Error Code {event.code}: {event.message}" / "Response failed".
ResponsesOffPath(ev, st) ==
    CASE ev.type = "error" -> Fails(<<"Error Code ", ev.code, ": ", ev.message>>, st)
      [] ev.type = "response.failed" -> Fails(<<"Response failed">>, st)
      [] OTHER -> Continues(st)

\* _stream_codex: message = event.get("message"), "Codex response failed"
\* when it is not a string; _parse_sse drops a frame json.loads rejects.
CodexOffPath(ev, st) ==
    IF ev.type \in {"error", "response.failed"}
    THEN Fails(IF ev.message # "" THEN <<ev.message>> ELSE <<"Codex response failed">>, st)
    ELSE Continues(st)

OffPathInit ==
    /\ callArgs \in {a \in [provider : ResponsesProviders, event : OffPathEvents,
                            state : ParserStates] :
                        a.event.type = "malformed" => a.provider = "codex"}
    /\ callRet = Continues(callArgs.state)
    /\ called = FALSE

OffPathEvent ==
    /\ ~called
    /\ callRet' = IF callArgs.provider = "responses"
                  THEN ResponsesOffPath(callArgs.event, callArgs.state)
                  ELSE CodexOffPath(callArgs.event, callArgs.state)
    /\ called' = TRUE
    /\ UNCHANGED callArgs

OffPathNext == OffPathEvent /\ UNCHANGED exceptCall


(***************************************************************************)
(* The terminal status of each provider and the stop reason reported for   *)
(* it (_map_stop_reason of anthropic.py, openai_responses.py and           *)
(* openai_codex_responses.py, and the tool_use upgrade of the two          *)
(* Responses-style parsers)                                                *)
(***************************************************************************)
StatusProviders == {"anthropic", "responses", "codex"}

\* The statuses a provider's API can report; "" is an absent status.
Vocabulary(provider) ==
    IF provider = "anthropic" THEN AnthropicStops \cup {"pause_turn", "refusal"}
    ELSE ResponsesStatuses \cup {"in_progress", ""}

MapStopReason(provider, status) ==
    CASE provider = "anthropic" -> AnthropicMapStopReason(status)
      [] provider = "responses" -> ResponsesMapStopReason(status)
      [] OTHER -> CodexMapStopReason(status)

\* if current_tool_calls and stop_reason == StopReason.STOP: TOOL_USE
ReportedStop(provider, mapped, calls) ==
    IF provider # "anthropic" /\ calls > 0 /\ mapped = "stop" THEN "tool_use" ELSE mapped

StatusInit ==
    /\ callArgs \in {a \in [provider : StatusProviders,
                            status : UNION {Vocabulary(q) : q \in StatusProviders},
                            calls : 0..MaxCalls] :
                        a.status \in Vocabulary(a.provider)}
    /\ callRet = [mapped |-> "stop", reported |-> "stop"]
    /\ called = FALSE

\* The terminal event arrives with the status, calls tool calls being open.
StatusMapped ==
    /\ ~called
    /\ LET mapped == MapStopReason(callArgs.provider, callArgs.status)
       IN callRet' = [mapped |-> mapped,
                      reported |-> ReportedStop(callArgs.provider, mapped, callArgs.calls)]
    /\ called' = TRUE
    /\ UNCHANGED callArgs

StatusNext == StatusMapped /\ UNCHANGED exceptCall


(***************************************************************************)
(* Merging adjacent stream parts (core/types.py TextPart.merge,            *)
(* ThinkPart.merge); texts are sequences of characters, "" is a signature  *)
(* that is None or empty                                                   *)
(***************************************************************************)
PartTexts == {<<>>, <<"a">>, <<"b">>}

Signatures == {"", "sig1", "sig2"}

ThinkPart(t, s) == [type |-> "think", think |-> t, signature |-> s]

\* TextPart(text=self.text + other.text)
TextMerge(a, b) == TextPart(a.text \o b.text)

\* signature = self.signature or other.signature
ThinkMerge(a, b) ==
    ThinkPart(a.think \o b.think, IF a.signature # "" THEN a.signature ELSE b.signature)

MergeInit ==
    /\ callArgs \in
          {[kind |-> "think", a |-> ThinkPart(t1, s1), b |-> ThinkPart(t2, s2)] :
               t1 \in PartTexts, t2 \in PartTexts, s1 \in Signatures, s2 \in Signatures}
          \cup {[kind |-> "text", a |-> TextPart(t1), b |-> TextPart(t2)] :
                    t1 \in PartTexts, t2 \in PartTexts}
    /\ callRet = callArgs.a
    /\ called = FALSE

Merge ==
    /\ ~called
    /\ callRet' = IF callArgs.kind = "think" THEN ThinkMerge(callArgs.a, callArgs.b)
                  ELSE TextMerge(callArgs.a, callArgs.b)
    /\ called' = TRUE
    /\ UNCHANGED callArgs

MergeNext == Merge /\ UNCHANGED exceptCall


(***************************************************************************)
(* Thinking signatures: from the provider stream to the next request       *)
(* (anthropic.py _process_stream, _convert_assistant_message;              *)
(* openai_responses.py _process_stream, _convert_messages)                 *)
(***************************************************************************)
MaxStream == 3

ThinkingProviders == {"anthropic", "responses"}

\* one thinking block of a provider stream: text deltas and signature
\* payloads (Anthropic signature_delta; Responses reasoning item carrying
\* encrypted_content, delivered by response.output_item.done)
ThinkingEvents ==
    {[kind |-> "think", text |-> t, payload |-> ""] : t \in {<<"a">>, <<"b">>}}
    \cup {[kind |-> "signature", text |-> <<>>, payload |-> s] : s \in {"sig1", "sig2"}}

ThinkingStreams ==
    UNION {[1..n -> ThinkingEvents] : n \in 1..MaxStream}

\* the parts _process_stream yields for one event
AnthropicThinkParts(ev) ==
    IF ev.kind = "think" THEN <<ThinkPart(ev.text, "")>>
    ELSE <<ThinkPart(<<>>, ev.payload)>>

\* only the reasoning text deltas are handled; output_item.done is read for
\* function_call items alone
ResponsesThinkParts(ev) ==
    IF ev.kind = "think" THEN <<ThinkPart(ev.text, "")>> ELSE <<>>

RECURSIVE StreamParts(_, _)
StreamParts(provider, stream) ==
    IF stream = <<>> THEN <<>>
    ELSE (IF provider = "anthropic" THEN AnthropicThinkParts(Head(stream))
          ELSE ResponsesThinkParts(Head(stream)))
         \o StreamParts(provider, Tail(stream))

\* the turn loop merges adjacent ThinkParts into one ThinkingContent
RECURSIVE MergeParts(_, _)
MergeParts(acc, parts) ==
    IF parts = <<>> THEN acc
    ELSE MergeParts(ThinkMerge(acc, Head(parts)), Tail(parts))

ThinkingContent(parts) ==
    IF parts = <<>> THEN <<>>
    ELSE LET m == MergeParts(Head(parts), Tail(parts))
         IN  <<[type |-> "thinking", thinking |-> m.think, signature |-> m.signature]>>

\* _convert_assistant_message: the signature is copied when it is truthy
AnthropicThinkingBlock(block) ==
    <<[type |-> "thinking", thinking |-> block.thinking, signature |-> block.signature]>>

\* _convert_messages: the stored signature is the reasoning item, appended
\* to the input when it is truthy; the thinking text is not replayed
ResponsesReasoningItem(block) ==
    IF block.signature # ""
    THEN <<[type |-> "reasoning", thinking |-> <<>>, signature |-> block.signature]>>
    ELSE <<>>

NextRequest(provider, content) ==
    IF content = <<>> THEN <<>>
    ELSE IF provider = "anthropic" THEN AnthropicThinkingBlock(content[1])
    ELSE ResponsesReasoningItem(content[1])

ThinkingInit ==
    /\ callArgs \in [provider : ThinkingProviders, stream : ThinkingStreams]
    /\ callRet = [content |-> <<>>, request |-> <<>>]
    /\ called = FALSE

ThinkingTurn ==
    /\ ~called
    /\ LET content == ThinkingContent(StreamParts(callArgs.provider, callArgs.stream))
       IN  callRet' = [content |-> content,
                       request |-> NextRequest(callArgs.provider, content)]
    /\ called' = TRUE
    /\ UNCHANGED callArgs

ThinkingNext == ThinkingTurn /\ UNCHANGED exceptCall


(***************************************************************************)
(* Surrogate sanitisation of outgoing text (sanitize.py and the request    *)
(* builders of the providers); a text is a sequence of code units:         *)
(* "a" an ordinary character, "S" a lone surrogate, "F" U+FFFD             *)
(***************************************************************************)
MaxText == 2

CodeUnits == {"a", "S", "F"}

OutgoingTexts == UNION {[1..n -> CodeUnits] : n \in 0..MaxText}

\* _SURROGATE_RE.sub(U+FFFD, text)
sanitize_surrogates(text) ==
    [i \in DOMAIN text |-> IF text[i] = "S" THEN "F" ELSE text[i]]

RequestProviders == {"anthropic", "copilot_anthropic", "responses", "codex"}

TextFields == {"system", "user", "assistant", "thinking", "tool_result"}

Sent(text) == [present |-> TRUE, text |-> text]

NotSent == [present |-> FALSE, text |-> <<>>]

\* AnthropicProvider._stream_impl and the _convert_* methods
AnthropicField(field, text) ==
    IF field = "system"
    THEN IF text # <<>> THEN Sent(sanitize_surrogates(text)) ELSE NotSent
    ELSE Sent(sanitize_surrogates(text))

\* CopilotAnthropicProvider.stream builds the system block itself and
\* inherits the message conversion
CopilotAnthropicField(field, text) ==
    IF field = "system"
    THEN IF text # <<>> THEN Sent(text) ELSE NotSent
    ELSE AnthropicField(field, text)

\* OpenAIResponsesProvider._convert_messages
ResponsesField(field, text) ==
    CASE field = "system" -> IF text # <<>> THEN Sent(sanitize_surrogates(text)) ELSE NotSent
      [] field = "user" -> Sent(sanitize_surrogates(text))
      [] field = "assistant" -> Sent(text)
      [] field = "thinking" -> NotSent
      [] field = "tool_result" -> Sent(text)

\* OpenAICodexResponsesProvider._stream_codex: instructions = system_prompt
\* or "", input = helper._convert_messages(messages, None)
CodexField(field, text) ==
    IF field = "system" THEN Sent(text) ELSE ResponsesField(field, text)

BuildField(provider, field, text) ==
    CASE provider = "anthropic" -> AnthropicField(field, text)
      [] provider = "copilot_anthropic" -> CopilotAnthropicField(field, text)
      [] provider = "responses" -> ResponsesField(field, text)
      [] provider = "codex" -> CodexField(field, text)

SanitizeInit ==
    /\ callArgs \in [provider : RequestProviders, field : TextFields, text : OutgoingTexts]
    /\ callRet = NotSent
    /\ called = FALSE

BuildRequest ==
    /\ ~called
    /\ callRet' = BuildField(callArgs.provider, callArgs.field, callArgs.text)
    /\ called' = TRUE
    /\ UNCHANGED callArgs

SanitizeNext == BuildRequest /\ UNCHANGED exceptCall


(***************************************************************************)
(* Copilot request headers (github_copilot_headers.py, copilot.py,         *)
(* copilot_anthropic.py); a header dict is a set of <<name, value>> pairs  *)
(***************************************************************************)
MaxMessages == 3

CopilotProviders == {"copilot", "copilot_responses", "copilot_anthropic"}

\* a message as the header builder sees it: its role, whether the content is
\* a plain string, and the kinds of its content parts
CopilotMessages ==
    {[role |-> "user", isStr |-> TRUE, parts |-> <<>>],
     [role |-> "user", isStr |-> FALSE, parts |-> <<"text">>],
     [role |-> "user", isStr |-> FALSE, parts |-> <<"text", "image">>],
     [role |-> "assistant", isStr |-> FALSE, parts |-> <<"text">>],
     [role |-> "tool_result", isStr |-> FALSE, parts |-> <<"text">>],
     [role |-> "tool_result", isStr |-> FALSE, parts |-> <<"image">>]}

CopilotMessageLists == UNION {[1..n -> CopilotMessages] : n \in 0..MaxMessages}

HasImagePart(msg) == \E i \in DOMAIN msg.parts : msg.parts[i] = "image"

infer_copilot_initiator(msgs) ==
    IF msgs = <<>> THEN "user"
    ELSE IF msgs[Len(msgs)].role = "user" THEN "user" ELSE "agent"

has_copilot_vision_inputUserOnly(msgs) ==
    \E i \in DOMAIN msgs : msgs[i].role = "user" /\ ~msgs[i].isStr /\ HasImagePart(msgs[i])

has_copilot_vision_input(msgs) ==
    \E i \in DOMAIN msgs :
        \/ msgs[i].role = "user" /\ ~msgs[i].isStr /\ HasImagePart(msgs[i])
        \/ msgs[i].role = "tool_result" /\ HasImagePart(msgs[i])

build_copilot_dynamic_headers(msgs) ==
    {<<"X-Initiator", infer_copilot_initiator(msgs)>>,
     <<"Openai-Intent", "conversation-edits">>}
    \cup (IF has_copilot_vision_input(msgs) THEN {<<"Copilot-Vision-Request", "true">>} ELSE {})

COPILOT_HEADERS ==
    {<<"User-Agent", "GitHubCopilotChat/0.35.0">>,
     <<"Editor-Version", "vscode/1.107.0">>,
     <<"Editor-Plugin-Version", "copilot-chat/0.35.0">>,
     <<"Copilot-Integration-Id", "vscode-chat">>}

\* {**a, **b}: the keys of b override those of a
DictMerge(a, b) == {p \in a : \A q \in b : q[1] # p[1]} \cup b

\* the default_headers of the client each stream() call builds
CopilotDefaultHeaders(provider, msgs) ==
    LET merged == DictMerge(COPILOT_HEADERS, build_copilot_dynamic_headers(msgs))
    IN  IF provider = "copilot_anthropic"
        THEN DictMerge(merged, {<<"Authorization", "Bearer token">>,
                                <<"anthropic-beta", "interleaved-thinking-2025-05-14">>})
        ELSE merged

HeadersInit ==
    /\ callArgs \in [provider : CopilotProviders, messages : CopilotMessageLists]
    /\ callRet = {}
    /\ called = FALSE

CopilotStream ==
    /\ ~called
    /\ callRet' = CopilotDefaultHeaders(callArgs.provider, callArgs.messages)
    /\ called' = TRUE
    /\ UNCHANGED callArgs

HeadersNext == CopilotStream /\ UNCHANGED exceptCall


(***************************************************************************)
(* Anthropic prompt caching (anthropic.py _stream_impl, _convert_messages, *)
(* _add_cache_control_to_last_user_message; copilot_anthropic.py stream)   *)
(***************************************************************************)
AnthropicFamily == {"anthropic", "copilot_anthropic"}

\* the messages of the Copilot header model and a user message whose content
\* is an empty list
CacheMessages == CopilotMessages \cup {[role |-> "user", isStr |-> FALSE, parts |-> <<>>]}

CacheMessageLists == UNION {[1..n -> CacheMessages] : n \in 0..MaxMessages}

SystemPrompts == {"", "sys"}

Block(type, cache) == [type |-> type, cache |-> cache]

\* _convert_user_message, _convert_assistant_message, _convert_tool_result:
\* a tool result becomes a user-role message of one tool_result block
ConvertMessage(msg) ==
    CASE msg.role = "user" ->
           [role |-> "user", isStr |-> msg.isStr,
            content |-> [i \in DOMAIN msg.parts |-> Block(msg.parts[i], FALSE)]]
      [] msg.role = "assistant" ->
           [role |-> "assistant", isStr |-> FALSE,
            content |-> [i \in DOMAIN msg.parts |-> Block(msg.parts[i], FALSE)]]
      [] msg.role = "tool_result" ->
           [role |-> "user", isStr |-> FALSE, content |-> <<Block("tool_result", FALSE)>>]

add_cache_control_to_last_user_message(result) ==
    IF result = <<>> THEN result
    ELSE LET n == Len(result)
             last == result[n]
         IN  IF last.role # "user" THEN result
             ELSE IF last.isStr
             THEN [result EXCEPT ![n] = [role |-> "user", isStr |-> FALSE,
                                         content |-> <<Block("text", TRUE)>>]]
             ELSE IF last.content # <<>>
                     /\ last.content[Len(last.content)].type \in {"text", "image", "tool_result"}
             THEN [result EXCEPT ![n].content[Len(last.content)].cache = TRUE]
             ELSE result

ConvertMessages(msgs) ==
    add_cache_control_to_last_user_message([i \in DOMAIN msgs |-> ConvertMessage(msgs[i])])

\* create_kwargs["system"] is set only for a non-empty system prompt
SystemBlocks(prompt) == IF prompt # "" THEN <<Block("text", TRUE)>> ELSE <<>>

CacheInit ==
    /\ callArgs \in [provider : AnthropicFamily, system : SystemPrompts,
                     messages : CacheMessageLists]
    /\ callRet = [system |-> <<>>, messages |-> <<>>]
    /\ called = FALSE

AnthropicRequest ==
    /\ ~called
    /\ callRet' = [system |-> SystemBlocks(callArgs.system),
                   messages |-> ConvertMessages(callArgs.messages)]
    /\ called' = TRUE
    /\ UNCHANGED callArgs

CacheNext == AnthropicRequest /\ UNCHANGED exceptCall


(***************************************************************************)
(* EditTool.execute and generate_diff (tools/edit.py); a file content is a *)
(* sequence of characters in which "N" is the newline                      *)
(***************************************************************************)
MaxContent == 4

EditContents == UNION {[1..n -> {"a", "b", "N"}] : n \in 0..MaxContent}

OldStrings == {<<"a">>, <<"b">>, <<"a", "b">>}

NewStrings == {<<>>, <<"b">>, <<"c">>, <<"a", "b">>}

OccursAt(s, old, p) ==
    /\ p + Len(old) - 1 <= Len(s)
    /\ \A t \in 1..Len(old) : s[p + t - 1] = old[t]

\* old_string in content
Contains(s, old) == \E p \in 1..Len(s) : OccursAt(s, old, p)

\* str.replace(old, new[, 1]): a left-to-right scan over non-overlapping
\* occurrences
RECURSIVE Replace(_, _, _, _)
Replace(s, old, new, all) ==
    IF Len(s) < Len(old) THEN s
    ELSE IF OccursAt(s, old, 1)
    THEN LET rest == SubSeq(s, Len(old) + 1, Len(s))
         IN  new \o (IF all THEN Replace(rest, old, new, all) ELSE rest)
    ELSE <<Head(s)>> \o Replace(Tail(s), old, new, all)

RECURSIVE SplitOnNewline(_)
SplitOnNewline(s) ==
    IF \A i \in DOMAIN s : s[i] # "N" THEN <<s>>
    ELSE LET p == CHOOSE i \in DOMAIN s : s[i] = "N" /\ \A j \in 1..(i - 1) : s[j] # "N"
         IN  <<SubSeq(s, 1, p - 1)>> \o SplitOnNewline(SubSeq(s, p + 1, Len(s)))

\* str.splitlines(): no empty last line after a final newline
splitlines(s) ==
    LET parts == SplitOnNewline(s)
    IN  IF parts[Len(parts)] = <<>> THEN SubSeq(parts, 1, Len(parts) - 1) ELSE parts

\* length of the common run of a from i and b from j inside the windows
MatchLen(a, i, ahi, b, j, bhi) ==
    LET room == Min(ahi - i + 1, bhi - j + 1)
        runs == {k \in 0..room : \A t \in 0..(k - 1) : a[i + t] = b[j + t]}
    IN  CHOOSE k \in runs : \A m \in runs : m <= k

\* difflib find_longest_match without junk: the longest block, of those the
\* one starting earliest in a, of those the one starting earliest in b
find_longest_match(a, alo, ahi, b, blo, bhi) ==
    LET starts == (alo..ahi) \X (blo..bhi)
        best == CHOOSE k \in 0..(ahi - alo + 1) :
                    /\ \A p \in starts : MatchLen(a, p[1], ahi, b, p[2], bhi) <= k
                    /\ k = 0 \/ \E p \in starts : MatchLen(a, p[1], ahi, b, p[2], bhi) = k
    IN  IF best = 0 THEN <<alo, blo, 0>>
        ELSE LET winners == {p \in starts : MatchLen(a, p[1], ahi, b, p[2], bhi) = best}
                 w == CHOOSE p \in winners :
                          \A q \in winners : p[1] < q[1] \/ (p[1] = q[1] /\ p[2] <= q[2])
             IN  <<w[1], w[2], best>>

\* get_matching_blocks: the longest block, then the same on both sides;
\* the result is the number of matched lines
RECURSIVE MatchedLines(_, _, _, _, _, _)
MatchedLines(a, alo, ahi, b, blo, bhi) ==
    IF alo > ahi \/ blo > bhi THEN 0
    ELSE LET m == find_longest_match(a, alo, ahi, b, blo, bhi)
         IN  IF m[3] = 0 THEN 0
             ELSE m[3] + MatchedLines(a, alo, m[1] - 1, b, blo, m[2] - 1)
                       + MatchedLines(a, m[1] + m[3], ahi, b, m[2] + m[3], bhi)

\* the added and removed counts: the lines of the replace, insert and delete
\* opcodes are the lines outside the matching blocks
generate_diff(old_content, new_content) ==
    LET old_lines == splitlines(old_content)
        new_lines == splitlines(new_content)
        matched == MatchedLines(old_lines, 1, Len(old_lines), new_lines, 1, Len(new_lines))
    IN  [added |-> Len(new_lines) - matched, removed |-> Len(old_lines) - matched]

EditFailure(file) == [success |-> FALSE, file |-> file, added |-> 0, removed |-> 0]

EditApply(file, old, new, all) ==
    IF ~file.exists THEN EditFailure(file)
    ELSE IF ~Contains(file.content, old) THEN EditFailure(file)
    ELSE LET new_content == Replace(file.content, old, new, all)
             diff == generate_diff(file.content, new_content)
         IN  [success |-> TRUE, file |-> [exists |-> TRUE, content |-> new_content],
              added |-> diff.added, removed |-> diff.removed]

EditInit ==
    /\ callArgs \in [file : [exists : BOOLEAN, content : EditContents],
                     old_string : OldStrings, new_string : NewStrings,
                     replace_all : BOOLEAN]
    /\ ~callArgs.file.exists => callArgs.file.content = <<>>
    /\ callRet = EditFailure(callArgs.file)
    /\ called = FALSE

Edit ==
    /\ ~called
    /\ callRet' = EditApply(callArgs.file, callArgs.old_string, callArgs.new_string,
                            callArgs.replace_all)
    /\ called' = TRUE
    /\ UNCHANGED callArgs

EditNext == Edit /\ UNCHANGED exceptCall


(***************************************************************************)
(* Skill discovery (context/skills.py): a skill directory is its directory *)
(* name, the name of its frontmatter ("" when absent) and its description  *)
(***************************************************************************)
MAX_NAME_LENGTH == 64

MAX_DESCRIPTION_LENGTH == 1024

SkillDirs == {"alpha", "beta"}

FrontmatterNames == {"", "alpha", "Upper", "long"}

Descriptions == {"", "ok", "long"}

\* len(name): "long" stands for a name of 65 lowercase letters
NameLength(name) == IF name = "long" THEN MAX_NAME_LENGTH + 1 ELSE 5

\* re.match(r"^[a-z0-9-]+$", name)
MatchesNameRe(name) == name # "Upper"

\* len(description): "long" stands for a description of 1025 characters
DescriptionLength(d) ==
    CASE d = "" -> 0 [] d = "ok" -> 2 [] d = "long" -> MAX_DESCRIPTION_LENGTH + 1

SkillEntries == [dir : SkillDirs, name : FrontmatterNames, description : Descriptions]

\* the subdirectories of one skills directory in the order iterdir() yields
\* them; directory names are unique
SkillListings ==
    {l \in UNION {[1..n -> SkillEntries] : n \in 0..Cardinality(SkillDirs)} :
        \A i, j \in DOMAIN l : i # j => l[i].dir # l[j].dir}

SkillWarning(path, message) == [path |-> path, message |-> message]

\* the hyphen checks cannot fire on the names used here
validate_skill(name, description, parent_dir_name, path) ==
    (IF name # parent_dir_name THEN <<SkillWarning(path, "name mismatch")>> ELSE <<>>)
    \o (IF NameLength(name) > MAX_NAME_LENGTH
        THEN <<SkillWarning(path, "name too long")>> ELSE <<>>)
    \o (IF ~MatchesNameRe(name) THEN <<SkillWarning(path, "name charset")>> ELSE <<>>)
    \o (IF description = "" THEN <<SkillWarning(path, "description required")>> ELSE <<>>)
    \o (IF DescriptionLength(description) > MAX_DESCRIPTION_LENGTH
        THEN <<SkillWarning(path, "description too long")>> ELSE <<>>)

\* name = frontmatter.get("name") or parent_dir_name
SkillName(e) == IF e.name # "" THEN e.name ELSE e.dir

\* _load_skill_from_dir: only a missing description drops the skill
SkillLoaded(e) == e.description # ""

SkillOf(loc, e) ==
    [name |-> SkillName(e), description |-> e.description, path |-> <<loc, e.dir>>]

RECURSIVE load_skills_from_dir(_, _)
load_skills_from_dir(loc, listing) ==
    IF listing = <<>> THEN [skills |-> <<>>, warnings |-> <<>>]
    ELSE LET e == Head(listing)
             rest == load_skills_from_dir(loc, Tail(listing))
         IN  [skills |-> (IF SkillLoaded(e) THEN <<SkillOf(loc, e)>> ELSE <<>>) \o rest.skills,
              warnings |-> validate_skill(SkillName(e), e.description, e.dir, <<loc, e.dir>>)
                           \o rest.warnings]

RECURSIVE add_skills(_, _)
add_skills(acc, skills) ==
    IF skills = <<>> THEN acc
    ELSE LET s == Head(skills)
             taken == \E i \in DOMAIN acc.skills : acc.skills[i].name = s.name
         IN  add_skills(
                 IF taken
                 THEN [acc EXCEPT !.warnings = Append(@, SkillWarning(s.path, "name collision"))]
                 ELSE [acc EXCEPT !.skills = Append(@, s)],
                 Tail(skills))

load_skills(local, global) ==
    LET l == load_skills_from_dir("local", local)
        g == load_skills_from_dir("global", global)
        afterLocal == add_skills([skills |-> <<>>, warnings |-> l.warnings], l.skills)
    IN  add_skills([afterLocal EXCEPT !.warnings = @ \o g.warnings], g.skills)

SkillsInit ==
    /\ callArgs \in [local : SkillListings, global : SkillListings]
    /\ callRet = [skills |-> <<>>, warnings |-> <<>>]
    /\ called = FALSE

LoadSkills ==
    /\ ~called
    /\ callRet' = load_skills(callArgs.local, callArgs.global)
    /\ called' = TRUE
    /\ UNCHANGED callArgs

SkillsNext == LoadSkills /\ UNCHANGED exceptCall


(***************************************************************************)
(* Context file discovery (context/agents.py): the directories from the    *)
(* filesystem root down to the working directory are the depths 0..cwd;    *)
(* Elsewhere is a directory off that path                                  *)
(***************************************************************************)
MaxDepth == 2

Elsewhere == 0 - 1

\* the context file a directory offers: "" when it has none, else the first
\* readable candidate of CONTEXT_FILE_CANDIDATES
FileStates == {"", "AGENTS.md", "CLAUDE.md"}

AgentsWorlds ==
    UNION {[cwd : {d}, files : [0..d -> FileStates],
            git : {g \in SUBSET (0..d) : Cardinality(g) <= 2},
            home : (0..d) \cup {Elsewhere},
            config : (0..d) \cup {Elsewhere},
            configExists : BOOLEAN,
            configFile : FileStates] : d \in 0..MaxDepth}

\* Path.parent: the root is its own parent
ParentDir(dir) == IF dir = 0 THEN 0 ELSE dir - 1

RECURSIVE find_git_rootFarthest(_, _)
find_git_rootFarthest(w, current) ==
    IF current = 0 THEN (IF 0 \in w.git THEN 0 ELSE Elsewhere)
    ELSE LET above == find_git_rootFarthest(w, ParentDir(current))
         IN  IF above # Elsewhere THEN above
             ELSE IF current \in w.git THEN current ELSE Elsewhere

\* Elsewhere stands for None
RECURSIVE find_git_root(_, _)
find_git_root(w, current) ==
    IF current \in w.git THEN current
    ELSE IF ParentDir(current) = current THEN Elsewhere
    ELSE find_git_root(w, ParentDir(current))

get_stop_directory(w) ==
    LET git_root == find_git_root(w, w.cwd)
    IN  IF git_root # Elsewhere THEN git_root
        ELSE IF w.home # Elsewhere THEN w.home
        ELSE w.cwd

DirFile(w, dir) ==
    IF dir = Elsewhere THEN w.configFile ELSE w.files[dir]

\* <<>> stands for None
load_context_file_from_dir(w, dir) ==
    IF DirFile(w, dir) = "" THEN <<>> ELSE <<[dir |-> dir, file |-> DirFile(w, dir)]>>

GlobalContext(w) ==
    IF w.configExists THEN load_context_file_from_dir(w, w.config) ELSE <<>>

\* the while loop of load_agents_files; fuel bounds the iterations the model
\* follows, a walk that runs out of it does not terminate
RECURSIVE AncestorWalk(_, _, _, _, _)
AncestorWalk(w, current, stop_dir, seen, fuel) ==
    IF fuel = 0 THEN [files |-> <<>>, terminated |-> FALSE]
    ELSE LET found == load_context_file_from_dir(w, current)
             fresh == IF found # <<>> /\ found[1] \notin seen THEN found ELSE <<>>
         IN  IF current = stop_dir THEN [files |-> fresh, terminated |-> TRUE]
             ELSE LET up == AncestorWalk(w, ParentDir(current), stop_dir,
                                         seen \cup {fresh[i] : i \in DOMAIN fresh}, fuel - 1)
                  IN  [files |-> up.files \o fresh, terminated |-> up.terminated]

load_agents_files(w) ==
    LET global == GlobalContext(w)
        walk == AncestorWalk(w, w.cwd, get_stop_directory(w),
                             {global[i] : i \in DOMAIN global}, w.cwd + 2)
    IN  [files |-> global \o walk.files, terminated |-> walk.terminated]

AgentsInit ==
    /\ callArgs \in AgentsWorlds
    /\ callArgs.config # Elsewhere => callArgs.configFile = ""
    /\ callArgs.config # Elsewhere => callArgs.configExists
    /\ callRet = [files |-> <<>>, terminated |-> FALSE]
    /\ called = FALSE

LoadAgentsFiles ==
    /\ ~called
    /\ callRet' = load_agents_files(callArgs)
    /\ called' = TRUE
    /\ UNCHANGED callArgs

AgentsNext == LoadAgentsFiles /\ UNCHANGED exceptCall


(***************************************************************************)
(* Version comparison (update_check.py); a version string is the list of   *)
(* its dotted numbers, the tag after them and the number after the tag     *)
(* (0 when the tag has none), e.g. "1.0rc1" is <<1, 0>>, "rc", 1           *)
(***************************************************************************)
VersionNumbers == {<<0>>, <<1>>, <<1, 0>>, <<0, 1>>, <<1, 1>>}

VersionTags == {"", "dev", "a", "b", "rc", "post", "foo"}

VersionStrings ==
    {v \in [numbers : VersionNumbers, tag : VersionTags, n : 0..1] :
        v.tag # "rc" => v.n = 0}

\* while len(parts) > 1 and parts[-1] == 0: parts.pop()
RECURSIVE StripZeros(_)
StripZeros(parts) ==
    IF Len(parts) > 1 /\ parts[Len(parts)] = 0
    THEN StripZeros(SubSeq(parts, 1, Len(parts) - 1))
    ELSE parts

base_version_tuple(version) == StripZeros(version.numbers)

StageKeyFinal(version) == <<2, 0>>

\* the first matching stage pattern, else (2, 0)
stage_key(version) ==
    CASE version.tag = "dev" -> <<0 - 2, version.n>>
      [] version.tag = "a" -> <<0 - 1, version.n>>
      [] version.tag = "b" -> <<0, version.n>>
      [] version.tag = "rc" -> <<1, version.n>>
      [] version.tag = "post" -> <<3, version.n>>
      [] OTHER -> <<2, 0>>

\* Python's order on tuples of integers
RECURSIVE TupleLess(_, _)
TupleLess(a, b) ==
    IF b = <<>> THEN FALSE
    ELSE IF a = <<>> THEN TRUE
    ELSE IF Head(a) # Head(b) THEN Head(a) < Head(b)
    ELSE TupleLess(Tail(a), Tail(b))

\* latest_key > current_key for keys (base, stage, number)
is_newer_version(current_version, latest_version) ==
    LET cb == base_version_tuple(current_version)
        lb == base_version_tuple(latest_version)
    IN  IF cb # lb THEN TupleLess(cb, lb)
        ELSE TupleLess(stage_key(current_version), stage_key(latest_version))

VersionInit ==
    /\ callArgs \in [a : VersionStrings, b : VersionStrings, c : VersionStrings]
    /\ callRet = [aa |-> FALSE, ab |-> FALSE, ba |-> FALSE, bc |-> FALSE, ac |-> FALSE]
    /\ called = FALSE

CompareVersions ==
    /\ ~called
    /\ callRet' = [aa |-> is_newer_version(callArgs.a, callArgs.a),
                   ab |-> is_newer_version(callArgs.a, callArgs.b),
                   ba |-> is_newer_version(callArgs.b, callArgs.a),
                   bc |-> is_newer_version(callArgs.b, callArgs.c),
                   ac |-> is_newer_version(callArgs.a, callArgs.c)]
    /\ called' = TRUE
    /\ UNCHANGED callArgs

VersionNext == CompareVersions /\ UNCHANGED exceptCall


(***************************************************************************)
(* From the usage a provider reports to the overflow test (anthropic.py    *)
(* and openai_responses.py _process_stream, compaction.py is_overflow)     *)
(***************************************************************************)
UsageProviders == {"anthropic", "responses"}

\* what the provider reports: Anthropic counts the tokens read from the
\* cache apart from input_tokens, the Responses API counts them inside
UpstreamReports ==
    {r \in [provider : UsageProviders, input : 0..MaxTok, output : 0..MaxTok,
            cached : 0..MaxTok] :
        r.provider = "responses" => r.cached <= r.input}

\* MessageStartEvent: input_tokens = usage.input_tokens + cache_read
AnthropicUsage(r) ==
    [input_tokens |-> r.input + r.cached, output_tokens |-> r.output,
     cache_read_tokens |-> r.cached, cache_write_tokens |-> 0]

\* response.completed: input_tokens as reported, cache_read = cached_tokens
ResponsesUsage(r) ==
    [input_tokens |-> r.input, output_tokens |-> r.output,
     cache_read_tokens |-> r.cached, cache_write_tokens |-> 0]

ParsedUsage(r) == IF r.provider = "anthropic" THEN AnthropicUsage(r) ELSE ResponsesUsage(r)

UsageOverflowInit ==
    /\ callArgs \in [report : UpstreamReports, config : ConfigSet]
    /\ callRet = [usage |-> ParsedUsage(callArgs.report), overflow |-> FALSE]
    /\ called = FALSE

CheckParsedUsage ==
    /\ ~called
    /\ callRet' = [usage |-> ParsedUsage(callArgs.report),
                   overflow |-> is_overflow(ParsedUsage(callArgs.report), callArgs.config.W,
                                            callArgs.config.M, callArgs.config.B)]
    /\ called' = TRUE
    /\ UNCHANGED callArgs

UsageOverflowNext == CheckParsedUsage /\ UNCHANGED exceptCall


(***************************************************************************)
(* Two edit tool calls of one turn on the same file (tools/edit.py         *)
(* EditTool.execute); the turn loop dispatches the calls concurrently and  *)
(* each await of execute is a point where the other call may run           *)
(***************************************************************************)
EditCalls == {1, 2}

\* the two calls replace different texts by texts the file does not hold
EditParams == <<[old_string |-> <<"a">>, new_string |-> <<"c">>],
                [old_string |-> <<"b">>, new_string |-> <<"d">>]>>

EditIdle ==
    /\ edOrig = <<>>
    /\ edFile = <<>>
    /\ edPc = [p \in EditCalls |-> "idle"]
    /\ edSeen = [p \in EditCalls |-> <<>>]
    /\ edResult = [p \in EditCalls |-> "none"]

EditRaceInit ==
    /\ edOrig \in EditContents
    /\ edFile = edOrig
    /\ edPc = [p \in EditCalls |-> "start"]
    /\ edSeen = [p \in EditCalls |-> <<>>]
    /\ edResult = [p \in EditCalls |-> "none"]

\* async with aiofiles.open(file_path): content = await f.read(); then the
\* old_string test
EditRead(p) ==
    /\ edPc[p] = "start"
    /\ edSeen' = [edSeen EXCEPT ![p] = edFile]
    /\ IF Contains(edFile, EditParams[p].old_string)
       THEN edPc' = [edPc EXCEPT ![p] = "read"] /\ UNCHANGED edResult
       ELSE /\ edPc' = [edPc EXCEPT ![p] = "done"]
            /\ edResult' = [edResult EXCEPT ![p] = "failure"]
    /\ UNCHANGED <<edOrig, edFile>>

\* async with aiofiles.open(file_path, "w"): the file is truncated
EditOpenForWrite(p) ==
    /\ edPc[p] = "read"
    /\ edFile' = <<>>
    /\ edPc' = [edPc EXCEPT ![p] = "opened"]
    /\ UNCHANGED <<edOrig, edSeen, edResult>>

\* await f.write(new_content), computed from the content this call read
EditWrite(p) ==
    /\ edPc[p] = "opened"
    /\ edFile' = Replace(edSeen[p], EditParams[p].old_string, EditParams[p].new_string, FALSE)
    /\ edPc' = [edPc EXCEPT ![p] = "done"]
    /\ edResult' = [edResult EXCEPT ![p] = "success"]
    /\ UNCHANGED <<edOrig, edSeen>>

EditRaceNext ==
    \/ \E p \in EditCalls : EditRead(p) /\ UNCHANGED exceptEdit
    \/ \E p \in EditCalls : EditOpenForWrite(p) /\ UNCHANGED exceptEdit
    \/ \E p \in EditCalls : EditWrite(p) /\ UNCHANGED exceptEdit

(***************************************************************************)
(* The prompt history of the input box (ui/prompt_history.py)              *)
(***************************************************************************)
NoHistoryCall == [op |-> "none", text |-> "", direction |-> 0, ret |-> "None",
           index |-> 0, entries |-> <<>>]

HistIdle ==
    /\ hEntries = <<>>
    /\ hIndex = 0
    /\ hDraft = ""
    /\ hLeft = ""
    /\ hCall = NoHistoryCall

\* MAX_HISTORY_ENTRIES is 50 in the source; the model keeps the same trimming
\* with a cap small enough to enumerate every history.
MAX_HISTORY_ENTRIES == 3

\* Prompts that were sent, and what the input box may hold while navigating.
HistoryTexts == {"a", "b"}

InputTexts == {"", "a", "d"}

Directions == {0 - 2, 0 - 1, 1}

\* entries[-MAX_HISTORY_ENTRIES:]
LastEntries(es) ==
    IF Len(es) > MAX_HISTORY_ENTRIES
    THEN SubSeq(es, Len(es) - MAX_HISTORY_ENTRIES + 1, Len(es))
    ELSE es

\* __init__ and _load: the non-empty strings of the file, the last
\* MAX_HISTORY_ENTRIES of them; index 0 and an empty draft.
HistoryInit ==
    /\ hEntries \in {LastEntries(lines) :
                        lines \in UNION {[1..n -> HistoryTexts] :
                                            n \in 0..(MAX_HISTORY_ENTRIES + 1)}}
    /\ hIndex = 0
    /\ hDraft = ""
    /\ hLeft = ""
    /\ hCall = NoHistoryCall

\* append(text): empty text returns at once; a repeat of the last entry only
\* resets the index; otherwise the text is appended, the list trimmed, and
\* the index reset (_reset_index: index 0, draft "").
HistoryAppend ==
    \E text \in HistoryTexts \cup {""} :
        /\ hCall' = [NoHistoryCall EXCEPT !.op = "append", !.text = text,
                                          !.index = hIndex, !.entries = hEntries]
        /\ IF text = ""
           THEN UNCHANGED <<hEntries, hIndex, hDraft>>
           ELSE /\ hEntries' = IF hEntries # <<>> /\ hEntries[Len(hEntries)] = text
                               THEN hEntries
                               ELSE LastEntries(Append(hEntries, text))
                /\ hIndex' = 0
                /\ hDraft' = ""
        /\ UNCHANGED hLeft

\* self._entries[self._index] for a negative index
EntryAt(es, i) == es[Len(es) + i + 1]

Abs(n) == IF n < 0 THEN 0 - n ELSE n

\* navigate(direction, current_text); hLeft keeps the text of the input box
\* at the move that left index 0.
HistoryNavigate ==
    \E direction \in Directions, current_text \in InputTexts \cup HistoryTexts :
        LET draft     == IF hIndex = 0 THEN current_text ELSE hDraft
            new_index == hIndex + direction
            call      == [NoHistoryCall EXCEPT !.op = "navigate", !.text = current_text,
                                               !.direction = direction, !.index = hIndex,
                                               !.entries = hEntries]
        IN  IF hEntries = <<>>
            THEN /\ hCall' = call
                 /\ UNCHANGED <<hEntries, hIndex, hDraft, hLeft>>
            ELSE /\ hDraft' = draft
                 /\ UNCHANGED hEntries
                 /\ IF new_index > 0 \/ Abs(new_index) > Len(hEntries)
                    THEN /\ hCall' = call
                         /\ UNCHANGED <<hIndex, hLeft>>
                    ELSE /\ hIndex' = new_index
                         /\ hLeft' = IF hIndex = 0 THEN current_text ELSE hLeft
                         /\ hCall' = [call EXCEPT !.ret = IF new_index = 0 THEN draft
                                                          ELSE EntryAt(hEntries, new_index)]

HistoryNext ==
    \/ HistoryAppend /\ UNCHANGED exceptHist
    \/ HistoryNavigate /\ UNCHANGED exceptHist


(***************************************************************************)
(* generate_summary (core/compaction.py): the text parts of one            *)
(* summarisation stream                                                    *)
(***************************************************************************)
SummaryParts == {TextPart(<<"a">>), TextPart(<<"b">>), ThinkPart(<<"t">>, "")}

\* how the provider stream ends: StreamDone, StreamError, or the iterator
\* is exhausted without a terminal part
SummaryEndings == {<<StreamDonePart("stop")>>, <<StreamError>>, <<>>}

SummaryStreams ==
    {body \o ending :
        body \in UNION {[1..n -> SummaryParts] : n \in 0..MaxStream},
        ending \in SummaryEndings}

\* async for part in stream: if isinstance(part, TextPart): text_parts.append
RECURSIVE JoinTextParts(_)
JoinTextParts(parts) ==
    IF parts = <<>> THEN <<>>
    ELSE (IF Head(parts).type = "text" THEN Head(parts).text ELSE <<>>)
         \o JoinTextParts(Tail(parts))

\* return "".join(text_parts): no part makes the function raise
generate_summary(stream) == [raised |-> FALSE, summary |-> JoinTextParts(stream)]

SummaryInit ==
    /\ callArgs \in SummaryStreams
    /\ callRet = [raised |-> FALSE, summary |-> <<>>]
    /\ called = FALSE

GenerateSummary ==
    /\ ~called
    /\ callRet' = generate_summary(callArgs)
    /\ called' = TRUE
    /\ UNCHANGED callArgs

SummaryNext == GenerateSummary /\ UNCHANGED exceptCall


(***************************************************************************)
(* Tool call ids of the Responses providers: the id given to a streamed    *)
(* call (_process_stream, _stream_codex) and its way back into the next    *)
(* request (_convert_messages).  Ids are character sequences.              *)
(***************************************************************************)
MaxId == 2

IdChars == {"c", "|"}

IdStrings(lo) == UNION {[1..n -> IdChars] : n \in lo..MaxId}

\* item.id of the streamed function_call item: a string, or missing
NoItemId == [present |-> FALSE, v |-> <<>>]

ItemIdValues == {NoItemId} \cup {[present |-> TRUE, v |-> s] : s \in IdStrings(0)}

\* openai_responses: item_id = item.id or ""; call_id = f"{item.call_id}|{item_id}"
ResponsesFullId(call_id, item_id) == call_id \o <<"|">> \o item_id.v

\* openai_codex_responses: f"{call_id}|{item_id}" if isinstance(item_id, str) else call_id
CodexFullId(call_id, item_id) ==
    IF item_id.present THEN call_id \o <<"|">> \o item_id.v ELSE call_id

HasBar(s) == \E k \in 1..Len(s) : s[k] = "|"

\* str.split("|")
RECURSIVE SplitOnBar(_)
SplitOnBar(s) ==
    IF ~HasBar(s) THEN <<s>>
    ELSE LET k == CHOOSE k \in 1..Len(s) : s[k] = "|" /\ \A j \in 1..(k - 1) : s[j] # "|"
         IN  <<SubSeq(s, 1, k - 1)>> \o SplitOnBar(SubSeq(s, k + 1, Len(s)))

NoConversion == [raised |-> FALSE, call_id |-> <<>>, item_id |-> NoItemId]

\* ToolCall block: call_id, item_id = block.id.split("|") raises ValueError
\* unless the split has exactly two pieces
ConvertToolCall(id) ==
    IF HasBar(id)
    THEN LET pieces == SplitOnBar(id)
         IN  IF Len(pieces) # 2 THEN [NoConversion EXCEPT !.raised = TRUE]
             ELSE [raised |-> FALSE, call_id |-> pieces[1],
                   item_id |-> [present |-> TRUE, v |-> pieces[2]]]
    ELSE [raised |-> FALSE, call_id |-> id, item_id |-> NoItemId]

\* ToolResultMessage: call_id = msg.tool_call_id.split("|")[0]
ConvertToolResult(id) == IF HasBar(id) THEN SplitOnBar(id)[1] ELSE id

\* The function_call item and the function_call_output item of the next
\* request; the ValueError of the ToolCall block leaves no request.
convert_messages(id) ==
    LET call == ConvertToolCall(id)
    IN  [raised |-> call.raised,
         function_call |-> [call_id |-> call.call_id, id |-> call.item_id],
         function_call_output |->
             [call_id |-> IF call.raised THEN <<>> ELSE ConvertToolResult(id)]]

IdProviders == {"responses", "codex"}

IdInit ==
    /\ callArgs \in [provider : IdProviders, call_id : IdStrings(1), item_id : ItemIdValues]
    /\ callRet = convert_messages(<<>>)
    /\ called = FALSE

\* One streamed tool call, its ToolCall block and ToolResultMessage under the
\* streamed id, and the next request built from them.
RoundTripId ==
    /\ ~called
    /\ callRet' = convert_messages(
           IF callArgs.provider = "codex"
           THEN CodexFullId(callArgs.call_id, callArgs.item_id)
           ELSE ResponsesFullId(callArgs.call_id, callArgs.item_id))
    /\ called' = TRUE
    /\ UNCHANGED callArgs

IdNext == RoundTripId /\ UNCHANGED exceptCall

(***************************************************************************)
(* Specifications                                                          *)
(***************************************************************************)
\* The subsystems added to the core ones, at rest.
CoreIdle == OvIdle /\ SessIdle /\ StrmIdle

OAuthIdle == CredIdle /\ LoginIdle

CallIdle == callArgs = "none" /\ callRet = "none" /\ called = FALSE

UiIdle == EditIdle /\ HistIdle

\* Every subsystem with variables of its own at rest.
AllIdle == CoreIdle /\ ToolIdle /\ StoreIdle /\ RetryIdle /\ PollIdle /\ OAuthIdle /\ UiIdle

RestIdle == ToolIdle /\ StoreIdle /\ RetryIdle /\ PollIdle /\ OAuthIdle /\ CallIdle /\ UiIdle

InitOverflow == OvInit /\ SessIdle /\ StrmIdle /\ RestIdle

SpecOverflow == InitOverflow /\ [][OvNext]_vars

InitSession == SessInit /\ OvIdle /\ StrmIdle /\ RestIdle

SpecSession == InitSession /\ [][SessNext]_vars

InitAnthropic == StrmIdle /\ OvIdle /\ SessIdle /\ RestIdle

InitTools == ToolIdle /\ CoreIdle /\ StoreIdle /\ RetryIdle /\ PollIdle /\ OAuthIdle /\ CallIdle /\ UiIdle

SpecTools == InitTools /\ [][ToolsNext]_vars

InitStore == StoreIdle /\ CoreIdle /\ ToolIdle /\ RetryIdle /\ PollIdle /\ OAuthIdle /\ CallIdle /\ UiIdle

SpecStore == InitStore /\ [][StoreNext]_vars

InitRetry == RetryIdle /\ CoreIdle /\ ToolIdle /\ StoreIdle /\ PollIdle /\ OAuthIdle /\ CallIdle /\ UiIdle

SpecRetry == InitRetry /\ [][RetryNext]_vars

InitPoll == PollInit /\ CoreIdle /\ ToolIdle /\ StoreIdle /\ RetryIdle /\ OAuthIdle /\ CallIdle /\ UiIdle

SpecPoll == InitPoll /\ [][PollNext]_vars

\* Each pass of the loop is a step of one running coroutine: a request that
\* is awaited completes or raises, and a sleep returns.
SpecPollLive == InitPoll /\ [][PollNext]_vars /\ WF_vars(PollNext)

SpecAnthropic == InitAnthropic /\ [][AnthropicNext]_vars

InitCreds == CredInit /\ CoreIdle /\ ToolIdle /\ StoreIdle /\ RetryIdle /\ PollIdle /\ LoginIdle /\ CallIdle /\ UiIdle

SpecCreds == InitCreds /\ [][CredNext]_vars

InitLogin == LoginInit /\ CoreIdle /\ ToolIdle /\ StoreIdle /\ RetryIdle /\ PollIdle /\ CredIdle /\ CallIdle /\ UiIdle

SpecLogin == InitLogin /\ [][LoginNext]_vars


InitToolCall == ToolCallInit /\ AllIdle

SpecToolCall == InitToolCall /\ [][ToolCallNext]_vars


InitOffPath == OffPathInit /\ AllIdle

SpecOffPath == InitOffPath /\ [][OffPathNext]_vars


InitStatus == StatusInit /\ AllIdle

SpecStatus == InitStatus /\ [][StatusNext]_vars


InitMerge == MergeInit /\ AllIdle

SpecMerge == InitMerge /\ [][MergeNext]_vars


InitThinking == ThinkingInit /\ AllIdle

SpecThinking == InitThinking /\ [][ThinkingNext]_vars


InitSanitize == SanitizeInit /\ AllIdle

SpecSanitize == InitSanitize /\ [][SanitizeNext]_vars


InitHeaders == HeadersInit /\ AllIdle

SpecHeaders == InitHeaders /\ [][HeadersNext]_vars


InitCache == CacheInit /\ AllIdle

SpecCache == InitCache /\ [][CacheNext]_vars


InitEdit == EditInit /\ AllIdle

SpecEdit == InitEdit /\ [][EditNext]_vars


InitSkills == SkillsInit /\ AllIdle

SpecSkills == InitSkills /\ [][SkillsNext]_vars


InitAgents == AgentsInit /\ AllIdle

SpecAgents == InitAgents /\ [][AgentsNext]_vars


InitVersion == VersionInit /\ AllIdle

SpecVersion == InitVersion /\ [][VersionNext]_vars


InitUsageOverflow == UsageOverflowInit /\ AllIdle

SpecUsageOverflow == InitUsageOverflow /\ [][UsageOverflowNext]_vars


InitEditRace ==
    EditRaceInit /\ CoreIdle /\ ToolIdle /\ StoreIdle /\ RetryIdle /\ PollIdle /\ OAuthIdle
        /\ CallIdle /\ HistIdle

SpecEditRace == InitEditRace /\ [][EditRaceNext]_vars

InitHistory ==
    HistoryInit /\ CoreIdle /\ ToolIdle /\ StoreIdle /\ RetryIdle /\ PollIdle /\ OAuthIdle
        /\ CallIdle /\ EditIdle

SpecHistory == InitHistory /\ [][HistoryNext]_vars


InitSummary == SummaryInit /\ AllIdle

SpecSummary == InitSummary /\ [][SummaryNext]_vars


InitId == IdInit /\ AllIdle

SpecId == InitId /\ [][IdNext]_vars

(***************************************************************************)
(* Claims                                                                  *)
(***************************************************************************)
ResultsFor(es, c) == {i \in 1..Len(es) : es[i].type = "tool_result" /\ es[i].call = c}

CallsOf(es, c) == {j \in 1..Len(es) : es[j].type = "assistant" /\ c \in es[j].calls}

\* C1: in every reachable session state every tool-result entry has exactly
\* one assistant tool-call entry with its id, that entry is earlier in the
\* log, and no tool-call id has more than one tool-result entry.
C1_ToolResultsPaired ==
    \A i \in 1..Len(entries) :
        entries[i].type = "tool_result" =>
            /\ Cardinality(CallsOf(entries, entries[i].call)) = 1
            /\ \A j \in CallsOf(entries, entries[i].call) : j < i
            /\ ResultsFor(entries, entries[i].call) = {i}

\* C1 witness: a session that went through a compaction and an interrupted
\* turn, holding a real result and a synthetic one.
C1_Witness ==
    /\ \E i \in 1..Len(entries) : entries[i].type = "compaction"
    /\ \E i \in 1..Len(entries) :
          entries[i].type = "tool_result" /\ entries[i].text = "Command aborted"
    /\ \E i \in 1..Len(entries) :
          entries[i].type = "tool_result" /\ entries[i].text = "output"

\* The number of MessageEntries among entries lo..hi.
MessageCount(es, lo, hi) == Cardinality({j \in lo..hi : IsMessageEntry(es[j])})

\* C2: with at least one CompactionEntry the view is the synthetic pair for the
\* LATEST compaction followed, in append order, by exactly the messages of the
\* MessageEntries appended after it; with none it is the full message list.
C2_CompactedView ==
    LET m   == messages(entries)
        cut == IF \E i \in 1..Len(entries) : entries[i].type = "compaction"
               THEN CHOOSE i \in 1..Len(entries) :
                        /\ entries[i].type = "compaction"
                        /\ \A j \in (i + 1)..Len(entries) : entries[j].type # "compaction"
               ELSE 0
        off == IF cut = 0 THEN 0 ELSE 2
    IN  /\ Len(m) = off + MessageCount(entries, cut + 1, Len(entries))
        /\ cut > 0 => /\ m[1] = SyntheticUser
                      /\ m[2] = SyntheticAssistant(entries[cut].summary)
        /\ \A i \in (cut + 1)..Len(entries) :
              IsMessageEntry(entries[i]) =>
                  m[off + MessageCount(entries, cut + 1, i)] = entries[i]

\* C2 witness: two compactions, and messages appended after the second.
C2_Witness ==
    /\ Cardinality({i \in 1..Len(entries) : entries[i].type = "compaction"}) = 2
    /\ Len(messages(entries)) > 2

\* C3: the compacted view never holds a tool-result whose tool-call is not an
\* earlier message of the view, and every CompactionEntry directly follows an
\* AssistantMessage that has no tool calls waiting for a reply.
C3_ViewKeepsPairs ==
    LET m == messages(entries)
    IN  /\ \A i \in 1..Len(m) :
              m[i].type = "tool_result" =>
                  \E j \in 1..(i - 1) : m[j].type = "assistant" /\ m[i].call \in m[j].calls
        /\ \A i \in 1..Len(entries) :
              entries[i].type = "compaction" =>
                  /\ i > 1
                  /\ entries[i - 1].type = "assistant"
                  /\ \A c \in entries[i - 1].calls :
                        \E r \in ResultsFor(entries, c) : r < i

\* C3 witness: a compacted view that holds a tool call and its result.
C3_Witness ==
    /\ LatestCut(entries) > 0
    /\ \E i \in 1..Len(messages(entries)) : messages(entries)[i].type = "tool_result"

TokenSum(u) ==
    u.input_tokens + u.output_tokens + u.cache_read_tokens + u.cache_write_tokens

\* C4: is_overflow(u, W, M, B) is true if and only if the sum of the four
\* counters of u is at least W - min(B, M).
C4_OverflowThreshold ==
    ovResult # <<>> =>
        (ovResult[1] <=>
            TokenSum(ovUsage) >= ovConfig.W - (IF ovConfig.B <= ovConfig.M
                                               THEN ovConfig.B ELSE ovConfig.M))

\* C4 witness: true exactly at the threshold, with cached tokens in the count
\* and a buffer larger than the output limit.
C4_Witness ==
    /\ ovResult = <<TRUE>>
    /\ ovConfig.M < ovConfig.B
    /\ ovUsage.cache_read_tokens > 0
    /\ ovUsage.cache_write_tokens > 0
    /\ TokenSum(ovUsage) = ovConfig.W - ovConfig.M

InitResponses == StrmIdle /\ OvIdle /\ SessIdle /\ RestIdle

SpecResponses == InitResponses /\ [][ResponsesNext]_vars

InitCodex == StrmIdle /\ OvIdle /\ SessIdle /\ RestIdle

SpecCodex == InitCodex /\ [][CodexNext]_vars

\* C5: the Usage exposed after Done has input_tokens >= cache_read_tokens.
C5_InputCoversCacheRead ==
    (finished /\ Len(lastOut) = 1 /\ lastOut[1].type = "done" /\ stream_usage # <<>>) =>
        stream_usage[1].input_tokens >= stream_usage[1].cache_read_tokens

\* C6: when a tool call was opened and the stop reason the Anthropic upstream
\* reported maps to stop, the Done part carries tool_use, never stop.
C6_StopUpgradedToToolUse ==
    (/\ finished
     /\ toolIndex > 0
     /\ upstreamStatus # ""
     /\ AnthropicMapStopReason(upstreamStatus) = "stop"
     /\ Len(lastOut) = 1
     /\ lastOut[1].type = "done")
    => lastOut[1].stop = "tool_use"

\* The call a done event carrying F for item (c, i) is about.
DoneTarget(calls, ev) ==
    IF \E n \in 1..Len(calls) : calls[n].id[1] = ev.call /\ calls[n].item = ev.item
    THEN CHOOSE n \in 1..Len(calls) : calls[n].id[1] = ev.call /\ calls[n].item = ev.item
    ELSE Intended(calls, ev.item)

\* The done event is about an open call: its ids are those of an open call,
\* or it is an arguments.done carrying no item id or the item id of one.
NamesOpenCall(calls, ev) ==
    \/ \E n \in 1..Len(calls) : calls[n].id[1] = ev.call /\ calls[n].item = ev.item
    \/ ev.type = "arguments.done" /\ ev.call = "" /\ ev.item # UnknownItem

\* C7: after an arguments.done or output_item.done carrying F for an open
\* call with accumulated string A, the accumulator equals F; the parts
\* emitted are the missing suffix when F starts with A (none when F = A) and
\* one delta carrying F otherwise.
C7_DoneReconciles ==
    (/\ lastEvent.type \in {"arguments.done", "output_item.done"}
     /\ lastEvent.has
     /\ prevCalls # <<>>
     /\ NamesOpenCall(prevCalls, lastEvent))
    => LET n == DoneTarget(prevCalls, lastEvent)
           A == prevCalls[n].args
           F == lastEvent.text
       IN  /\ current_tool_calls[n].args = F
           /\ lastOut = IF F = A THEN <<>>
                        ELSE IF StartsWith(F, A)
                        THEN <<ToolCallDelta(prevCalls[n].index,
                                             SubSeq(F, Len(A) + 1, Len(F)))>>
                        ELSE <<ToolCallDelta(prevCalls[n].index, F)>>

\* C8: an argument delta arriving while a call is open is credited to the
\* open call whose item id it carries, otherwise to the most recently opened
\* call: it is appended to that accumulator, emitted under that index, and
\* no other accumulator changes.
C8_DeltaAttributed ==
    (lastEvent.type = "arguments.delta" /\ prevCalls # <<>>)
    => LET t == Intended(prevCalls, lastEvent.item)
       IN  /\ lastOut = <<ToolCallDelta(prevCalls[t].index, lastEvent.text)>>
           /\ current_tool_calls =
                  [prevCalls EXCEPT ![t].args = @ \o lastEvent.text]

\* C9: ToolCallStart parts carry 0, 1, 2, ... in emission order, every
\* ToolCallDelta carries the index of an earlier ToolCallStart, and each
\* call's final argument string is the concatenation, in order, of the
\* fragments that arrived for it, under the id it was opened with.
C9_IndexedConcatenation ==
    /\ \A n \in 1..Len(consumer) : consumer[n].index = n - 1
    /\ \A j \in 1..Len(lastOut) :
           lastOut[j].type = "tool_call_delta" => lastOut[j].index + 1 \in 1..Len(consumer)
    /\ (finished /\ lastEvent.type = "completed") =>
           \A n \in 1..Len(current_tool_calls) :
               /\ current_tool_calls[n].args = arrived[n]
               /\ consumer[n].args = arrived[n]
               /\ consumer[n].id = current_tool_calls[n].id

\* A tool whose execute() has started and not yet returned.
InFlightTool(t) == tpc[t] = "waiting"

\* C11: once the cancel event is set no tool execution is left waiting on
\* its subprocess alone: every in-flight tool either has its wait woken by
\* the event or its subprocess has already ended; a tool that has returned
\* has no subprocess running, and a timed-out command was killed.
C11_CancelledToolsReturn ==
    \A t \in Tools :
        /\ (cancel_event /\ InFlightTool(t)) => (ObservesCancel(t) \/ tproc[t] = "exited")
        /\ (tpc[t] = "returned") => (tproc[t] # "running" /\ tresult[t] # "none")
        /\ (tresult[t] = "timed_out") => (tproc[t] \in {"killed", "killed_group"})

\* C12: at most one provider stream of the session is open, the turn's
\* stream and the summarization stream counted together.
C12_OneStreamOpen == openStreams <= 1

\* A summarization stream is open while a submitted prompt waits.
C12_Witness ==
    /\ phase = "compacting"
    /\ openStreams = 1
    /\ queued
    /\ \E i \in 1..Len(entries) : entries[i].type = "tool_result"

\* s is the start of t.
IsPrefix(s, t) == Len(s) <= Len(t) /\ SubSeq(t, 1, Len(s)) = s

\* C13: an append gives the new entry a fresh id and the parent_id of the
\* leaf held before, and makes it the leaf; no operation changes or reorders
\* an entry that exists; the leaf chain is one path in append order.
C13_AppendLinksToLeaf ==
    /\ (stOp = "append") =>
           LET e == stEntries[Len(stEntries)]
           IN  /\ stEntries = Append(stBefore.entries, e)
               /\ \A i \in 1..Len(stBefore.entries) : stBefore.entries[i].id # e.id
               /\ e.parent_id = stBefore.leaf
               /\ stLeaf = e.id
    /\ \A f \in 1..Len(stBefore.files) : IsPrefix(stBefore.files[f], stFiles[f])
    /\ (stOp = "fork") => IsPrefix(stEntries, stBefore.entries)
    /\ (stOp = "load") => stEntries = ParseLines(stBefore.files[stFile])
    /\ LET chain == OnChain(stEntries, stLeaf)
       IN  /\ chain = stEntries
           /\ \A i \in 1..Len(chain) :
                  chain[i].parent_id = IF i = 1 THEN NoLeaf ELSE chain[i - 1].id
           /\ \A i, j \in 1..Len(chain) : i < j => chain[i].id < chain[j].id

\* An entry was appended to a fork taken from a non-leaf entry.
C13_Witness ==
    /\ stOp = "append"
    /\ stFile = 2
    /\ ~IsPrefix(stFiles[1], stFiles[2])
    /\ Len(stEntries) >= 2
    /\ stBefore.leaf # NoLeaf

RECURSIVE MessagesUpTo(_, _)
MessagesUpTo(es, n) ==
    IF n = 0 THEN <<>>
    ELSE IF es[n].type \in {"user", "assistant", "tool_result"}
         THEN Append(MessagesUpTo(es, n - 1), es[n])
         ELSE MessagesUpTo(es, n - 1)

\* C15: all_messages is the in-order list of every MessageEntry message,
\* however many CompactionEntries the chain holds; with a CompactionEntry
\* as the last entry it equals all_messages of the entries before it.
C15_AllMessagesIgnoreCompaction ==
    /\ all_messages(entries) = MessagesUpTo(entries, Len(entries))
    /\ (Len(entries) > 0 /\ entries[Len(entries)].type = "compaction") =>
           all_messages(entries) = all_messages(SubSeq(entries, 1, Len(entries) - 1))

\* Two compactions on the chain, the second one just appended.
C15_Witness ==
    /\ Len(entries) > 0
    /\ entries[Len(entries)].type = "compaction"
    /\ Cardinality({i \in 1..Len(entries) : entries[i].type = "compaction"}) >= 2
    /\ Len(all_messages(entries)) > Len(messages(entries))

\* A transport error: a network failure, status 429 or a 5xx status.
IsTransportError(r) == r = NetworkFailure \/ r = 429 \/ r \in 500..599

\* C16: a transport error is retried while retries remain; at most 4
\* requests are made, with waits of 1 s, 2 s and 4 s before the retries; any
\* other error status is surfaced at once; when the loop gives up exactly
\* one Error carrying the last error has been emitted.
C16_TransportErrorsRetried ==
    LET n == Len(rResponses)
    IN  /\ n <= 4
        /\ rWaits = SubSeq(<<1000, 2000, 4000>>, 1, Len(rWaits))
        /\ \A i \in 1..n :
               /\ (i < n) => IsTransportError(rResponses[i])
               /\ (i = n /\ rState = "requesting") => IsTransportError(rResponses[i])
               /\ (i = n /\ rState = "failed") =>
                      (IsTransportError(rResponses[i]) => n = 4)
               /\ (i = n /\ rState = "streaming") => rResponses[i] < 400
        /\ Len(rWaits) = (IF rState = "requesting" THEN n ELSE n - 1)
        /\ (rState = "failed") => rErrors = <<rResponses[n]>>
        /\ (rState # "failed") => rErrors = <<>>

\* C17: a success that follows authorization_pending and slow_down
\* responses makes the call return the token; consecutive polls are at least
\* the current interval apart; each slow_down adds exactly 5 s to the
\* interval, which never shrinks; expired_token ends in a timeout failure.
C17_DevicePolling ==
    LET n == Len(polls)
    IN  /\ \A i \in 1..n :
               /\ polls[i].at < deadline
               /\ polls[i].interval =
                      polls[i].before + (IF polls[i].response = "slow_down" THEN 5 ELSE 0)
               /\ (i < n) =>
                      /\ polls[i].response \in {"authorization_pending", "slow_down"}
                      /\ polls[i + 1].at - polls[i].at >= polls[i].interval
                      /\ polls[i + 1].before = polls[i].interval
        /\ (n > 0 /\ polls[n].response = "access_token") => pResult = "token"
        /\ (n > 0 /\ polls[n].response = "expired_token") => pResult = "timeout"
        /\ (pResult = "token") => (n > 0 /\ polls[n].response = "access_token")
        /\ (n > 0) => poll_interval = polls[n].interval

\* The token is returned after a slow_down and an authorization_pending.
C17_Witness ==
    /\ pResult = "token"
    /\ Len(polls) >= 3
    /\ \E i \in 1..Len(polls) : polls[i].response = "slow_down"
    /\ \E i \in 1..Len(polls) : polls[i].response = "authorization_pending"

\* A call of get_valid_token agrees with the rule for the credentials c: no
\* refresh and c's token while now + 60 s < expires_at, else one refresh, the
\* new token and the new file on success, not-logged-in and the file as it
\* was on failure.
GvtConforms(g, c) ==
    IF g.now + 60000 < c.expires
    THEN g.refreshes = 0 /\ g.result = c.access /\ g.after = g.before
    ELSE /\ g.refreshes = 1
         /\ (g.outcome = "ok") =>
                /\ g.result # NotLoggedIn
                /\ g.result # c.access
                /\ g.after.exists
                /\ g.after.content.access = g.result
                /\ g.after.mode = "0600"
         /\ (g.outcome # "ok") => (g.result = NotLoggedIn /\ g.after = g.before)

\* The credentials the store holds at a call: those of the last completed
\* save, or those of the save in progress.
StoredAt(g) == {g.old, g.new} \ {NoCreds}

\* C18: for both credential stores the stored access token is returned without
\* a refresh exactly when now + 60 s < expires_at; otherwise one refresh is
\* attempted, which on success persists the new credentials and returns the
\* new token and on failure gives not-logged-in and leaves the file unchanged.
C18_RefreshWhenExpiring ==
    (gvt.called /\ gvt.old # NoCreds) => \E c \in StoredAt(gvt) : GvtConforms(gvt, c)

\* The same for the calls made while no other process is saving.
RefreshWhenExpiringAlone ==
    (gvt.called /\ gvt.old # NoCreds /\ gvt.new = NoCreds) => GvtConforms(gvt, gvt.old)

\* C19: an authorization code is exchanged only if it came with the state
\* issued for this login, on the callback and on the pasted input alike; once
\* an input carried a different state no token exchange is performed.
C19_StateValidated ==
    /\ (lgPhase = "exchanging" \/ lgExchanges > 0) => lgAccepted.state = "issued"
    /\ lgMismatch => (lgPhase # "exchanging" /\ lgExchanges = 0)

\* C20: a credentials file that exists has mode 0600 and holds a complete
\* record at every instant, and a load beside a save returns the old or the
\* new credentials, never none.
C20_AtomicCredentialFile ==
    /\ credFile.exists => (credFile.mode = "0600" /\ credFile.content # NoCreds)
    /\ (credLoad.done /\ credLoad.old # NoCreds) => credLoad.result \in StoredAt(credLoad)

\* C21: for every tool and every outcome of its file and subprocess
\* operations execute returns a ToolResult, with success = false and a display
\* string when an operation failed; it never raises to its caller.
C21_ToolsNeverRaise ==
    called => (callRet.raised = "" /\ callRet.display)

\* The error text contains the message m.
Carries(text, m) == \E i \in 1..Len(text) : text[i] = m

\* C22: in the Responses-style parsers an unknown event or a malformed data
\* frame yields nothing and leaves the parser state as it was, and a terminal
\* response.failed or error event yields exactly one Error part that carries
\* the provider's message and ends the stream.
C22_OffPathEvents ==
    called =>
        IF callArgs.event.type \in {"unknown", "malformed"}
        THEN callRet = Continues(callArgs.state)
        ELSE /\ Len(callRet.parts) = 1
             /\ callRet.parts[1].type = "error"
             /\ callRet.ended
             /\ (ProviderMessage(callArgs.event) # "") =>
                    Carries(callRet.parts[1].error, ProviderMessage(callArgs.event))

\* C23: every provider maps end_turn and completed to stop, max_tokens and
\* incomplete to length, tool_use to tool_use and a failed or cancelled status
\* to error; no failed or cancelled response is reported as stop.
C23_StopReasonMapping ==
    called =>
        /\ callArgs.status \in {"end_turn", "completed"} => callRet.mapped = "stop"
        /\ callArgs.status \in {"max_tokens", "incomplete"} => callRet.mapped = "length"
        /\ callArgs.status = "tool_use" => callRet.mapped = "tool_use"
        /\ callArgs.status \in {"failed", "cancelled"} =>
               (callRet.mapped = "error" /\ callRet.reported = "error")

\* C23 witness: a cancelled response with tool calls open is reported as error.
C23_Witness ==
    /\ called
    /\ callArgs.status = "cancelled"
    /\ callArgs.provider = "codex"
    /\ callArgs.calls > 0
    /\ callRet.reported = "error"

\* C25: merging adjacent ThinkDeltas a then b gives the text a.text + b.text
\* and the later non-empty signature, b's when it is non-empty and otherwise
\* a's; merging adjacent TextDeltas gives the concatenated text.
C25_MergeTakesLaterSignature ==
    called =>
        IF callArgs.kind = "think"
        THEN /\ callRet.think = callArgs.a.think \o callArgs.b.think
             /\ callRet.signature = IF callArgs.b.signature # "" THEN callArgs.b.signature
                                    ELSE callArgs.a.signature
        ELSE callRet.text = callArgs.a.text \o callArgs.b.text

Delivered(stream) ==
    {stream[i].payload : i \in {j \in DOMAIN stream : stream[j].kind = "signature"}}

EchoesSignature ==
    \A p \in Delivered(callArgs.stream) :
        Delivered(callArgs.stream) = {p} =>
            /\ Len(callRet.request) = 1
            /\ callRet.request[1].signature = p

\* C24: when the stream of a provider delivers a thinking signature for a
\* thinking block (one payload, possibly among text deltas), the next request
\* built from the resulting assistant message contains that payload verbatim
\* on the block.
C24_SignatureEchoed == called => EchoesSignature

AnthropicSignatureEchoed ==
    (called /\ callArgs.provider = "anthropic") => EchoesSignature

\* C26: for every provider and every text, no outgoing text field of the
\* built request (system prompt or instructions, user text, assistant text
\* and thinking, tool-result text) holds a lone surrogate: each one is
\* replaced by U+FFFD and every other character is sent unchanged.
C26_NoLoneSurrogateSent ==
    (called /\ callRet.present) =>
        /\ \A i \in DOMAIN callRet.text : callRet.text[i] # "S"
        /\ Len(callRet.text) = Len(callArgs.text)
        /\ \A i \in DOMAIN callArgs.text :
               callRet.text[i] = IF callArgs.text[i] = "S" THEN "F" ELSE callArgs.text[i]

AnthropicSanitizes ==
    (called /\ callRet.present /\ callArgs.provider = "anthropic") =>
        \A i \in DOMAIN callRet.text : callRet.text[i] # "S"

HeaderValues(name) == {p[2] : p \in {q \in callRet : q[1] = name}}

LastRole == callArgs.messages[Len(callArgs.messages)].role

\* C27: a request sent through a Copilot provider carries X-Initiator: user
\* when the last message is a UserMessage and X-Initiator: agent when it is
\* a tool result or an assistant message, and it carries
\* Copilot-Vision-Request: true exactly when some message holds an image.
C27_CopilotHeaders ==
    called =>
        /\ callArgs.messages # <<>> =>
              HeaderValues("X-Initiator") = {IF LastRole = "user" THEN "user" ELSE "agent"}
        /\ ("true" \in HeaderValues("Copilot-Vision-Request"))
              <=> (\E i \in DOMAIN callArgs.messages : HasImagePart(callArgs.messages[i]))

\* an agent-initiated request whose only image came back from a tool
C27_Witness ==
    /\ called
    /\ Len(callArgs.messages) = 3
    /\ callArgs.messages[1].role = "user" /\ ~HasImagePart(callArgs.messages[1])
    /\ callArgs.messages[2].role = "assistant"
    /\ callArgs.messages[3].role = "tool_result" /\ HasImagePart(callArgs.messages[3])
    /\ <<"X-Initiator", "agent">> \in callRet
    /\ <<"Copilot-Vision-Request", "true">> \in callRet

UserIndexes == {i \in DOMAIN callRet.messages : callRet.messages[i].role = "user"}

FinalUser == CHOOSE i \in UserIndexes : \A j \in UserIndexes : j <= i

Marked(m) == \E b \in DOMAIN m.content : m.content[b].cache

MarkedOnLastBlockOnly(m) ==
    /\ m.content # <<>>
    /\ \A b \in DOMAIN m.content : m.content[b].cache <=> b = Len(m.content)

CacheMarkersPlaced ==
    /\ callRet.system # <<>> => callRet.system[1].cache
    /\ MarkedOnLastBlockOnly(callRet.messages[FinalUser])
    /\ \A i \in DOMAIN callRet.messages : i # FinalUser => ~Marked(callRet.messages[i])

\* C28: for a message list that contains a user-role message, the request
\* of an Anthropic-family provider carries an ephemeral cache_control marker
\* on the system prompt and on the final user message and on no other block.
C28_CacheMarkers == (called /\ UserIndexes # {}) => CacheMarkersPlaced

\* the same when the list ends with a user-role message of non-empty content
CacheMarkersWhenUserLast ==
    (/\ called
     /\ callRet.messages # <<>>
     /\ callRet.messages[Len(callRet.messages)].role = "user"
     /\ callRet.messages[Len(callRet.messages)].content # <<>>) => CacheMarkersPlaced

Occurrences(s, old) == {p \in 1..Len(s) : OccursAt(s, old, p)}

\* the content with old replaced by new at the positions ps, written from
\* the positions rather than by a scan
RECURSIVE Rebuilt(_, _, _, _, _)
Rebuilt(s, p, ps, old, new) ==
    IF p > Len(s) THEN <<>>
    ELSE IF p \in ps THEN new \o Rebuilt(s, p + Len(old), ps, old, new)
    ELSE <<s[p]>> \o Rebuilt(s, p + 1, ps, old, new)

EditTargets ==
    LET occ == Occurrences(callArgs.file.content, callArgs.old_string)
    IN  IF callArgs.replace_all THEN occ ELSE {p \in occ : \A q \in occ : p <= q}

ChangedLines ==
    LET before == SplitOnNewline(callArgs.file.content)
        after == SplitOnNewline(callRet.file.content)
    IN  Cardinality({i \in DOMAIN before : before[i] # after[i]})

EditFound == callArgs.file.exists /\ Contains(callArgs.file.content, callArgs.old_string)

EditReplaces ==
    called =>
        IF EditFound
        THEN /\ callRet.success
             /\ callRet.file.content =
                    Rebuilt(callArgs.file.content, 1, EditTargets,
                            callArgs.old_string, callArgs.new_string)
        ELSE ~callRet.success /\ callRet.file = callArgs.file

\* C29: EditTool.execute replaces the first occurrence of old_string, or
\* every occurrence with replace_all, and leaves the rest unchanged; it
\* reports as added and as removed the number of lines that changed (n/n for
\* n replaced lines, here for a non-empty new_string inside a line); when the
\* file or old_string is not found it fails and leaves the file unchanged.
C29_EditCounts ==
    /\ EditReplaces
    /\ (called /\ EditFound /\ callArgs.new_string # <<>>) =>
           /\ callRet.added = ChangedLines
           /\ callRet.removed = ChangedLines

\* the counts of a single replacement
SingleEditCounts ==
    (called /\ EditFound /\ callArgs.new_string # <<>> /\ ~callArgs.replace_all) =>
        (callRet.added = ChangedLines /\ callRet.removed = ChangedLines)

ValidSkill(name, description) ==
    /\ NameLength(name) \in 1..MAX_NAME_LENGTH
    /\ MatchesNameRe(name)
    /\ DescriptionLength(description) \in 1..MAX_DESCRIPTION_LENGTH

Returned(path) == \E i \in DOMAIN callRet.skills : callRet.skills[i].path = path

Warned(path) == \E i \in DOMAIN callRet.warnings : callRet.warnings[i].path = path

NamedIn(listing, name) ==
    \E i \in DOMAIN listing : SkillLoaded(listing[i]) /\ SkillName(listing[i]) = name

OnePerNameLocalFirst ==
    /\ \A i, j \in DOMAIN callRet.skills :
           i # j => callRet.skills[i].name # callRet.skills[j].name
    /\ \A i \in DOMAIN callRet.skills :
           NamedIn(callArgs.local, callRet.skills[i].name)
               => callRet.skills[i].path[1] = "local"
    /\ \A i \in DOMAIN callArgs.global :
           (/\ SkillLoaded(callArgs.global[i])
            /\ NamedIn(callArgs.local, SkillName(callArgs.global[i])))
               => \E w \in DOMAIN callRet.warnings :
                      callRet.warnings[w] =
                          SkillWarning(<<"global", callArgs.global[i].dir>>, "name collision")

InvalidSkipped(loc, listing) ==
    \A i \in DOMAIN listing :
        ~ValidSkill(SkillName(listing[i]), listing[i].description)
            => (~Returned(<<loc, listing[i].dir>>) /\ Warned(<<loc, listing[i].dir>>))

\* C30: load_skills returns at most one skill per name, the project-local
\* one with a collision warning when the name exists both locally and
\* globally; every returned skill is valid (name lowercase-kebab of length
\* 1-64, description of length 1-1024) and every invalid entry is skipped
\* and reported as a warning.
C30_SkillsValidUnique ==
    called =>
        /\ OnePerNameLocalFirst
        /\ \A i \in DOMAIN callRet.skills :
               ValidSkill(callRet.skills[i].name, callRet.skills[i].description)
        /\ InvalidSkipped("local", callArgs.local)
        /\ InvalidSkipped("global", callArgs.global)

\* the halves of C30 that do not depend on skipping
SkillsUniqueAndWarned ==
    called =>
        /\ OnePerNameLocalFirst
        /\ \A i \in DOMAIN callArgs.local :
               ~ValidSkill(SkillName(callArgs.local[i]), callArgs.local[i].description)
                   => Warned(<<"local", callArgs.local[i].dir>>)

NearestGit == CHOOSE g \in callArgs.git : \A h \in callArgs.git : h <= g

\* the stop directory: the nearest git root, else the home directory when
\* the working directory lies under it, else the working directory itself
StopDirectory ==
    IF callArgs.git # {} THEN NearestGit
    ELSE IF callArgs.home # Elsewhere THEN callArgs.home
    ELSE callArgs.cwd

HasGlobal == callArgs.configExists /\ DirFile(callArgs, callArgs.config) # ""

AncestorPart ==
    IF HasGlobal THEN Tail(callRet.files) ELSE callRet.files

BaseValue(numbers) ==
    10 * numbers[1] + (IF Len(numbers) > 1 THEN numbers[2] ELSE 0)

PreRelease(v) == v.tag \in {"dev", "a", "b", "rc"}

\* C32: is_newer_version is a strict order: false for (v, v), never true in
\* both directions, transitive; base versions compare numerically, and for
\* equal base versions a pre-release (dev, alpha, beta, rc) is older than
\* the final release.
C32_StrictVersionOrder ==
    called =>
        /\ ~callRet.aa
        /\ ~(callRet.ab /\ callRet.ba)
        /\ (callRet.ab /\ callRet.bc) => callRet.ac
        /\ BaseValue(callArgs.a.numbers) < BaseValue(callArgs.b.numbers) => callRet.ab
        /\ BaseValue(callArgs.a.numbers) > BaseValue(callArgs.b.numbers) => ~callRet.ab
        /\ (/\ BaseValue(callArgs.a.numbers) = BaseValue(callArgs.b.numbers)
            /\ PreRelease(callArgs.a)
            /\ callArgs.b.tag = "") => (callRet.ab /\ ~callRet.ba)

\* is_newer_version("1.0rc1", "1") and a chain dev < rc < final
C32_Witness ==
    /\ called
    /\ callArgs.a = [numbers |-> <<1, 0>>, tag |-> "dev", n |-> 0]
    /\ callArgs.b = [numbers |-> <<1, 0>>, tag |-> "rc", n |-> 1]
    /\ callArgs.c = [numbers |-> <<1>>, tag |-> "", n |-> 0]
    /\ callRet.ab /\ callRet.bc /\ callRet.ac /\ ~callRet.ba

\* C33: every provider stream, for every upstream event sequence, also one
\* that closes without a terminal response event, emits exactly one terminal
\* part, Done or Error, as its last part: when the generator has returned,
\* the last part it yielded is the terminal one.
C33_OneTerminalEvent ==
    finished =>
        /\ lastOut # <<>>
        /\ lastOut[Len(lastOut)].type \in {"done", "error"}
        /\ \A i \in 1..(Len(lastOut) - 1) : lastOut[i].type \notin {"done", "error"}

\* C34: for every Responses stream and every tool call in it, the in-order
\* concatenation of the ToolCallDelta fragments emitted for the call's index
\* equals the parser's accumulated argument string for that call at Done.
C34_DeltasEqualAccumulator ==
    (finished /\ lastOut # <<>> /\ lastOut[Len(lastOut)].type = "done") =>
        /\ Len(consumer) = Len(current_tool_calls)
        /\ \A n \in 1..Len(current_tool_calls) :
               consumer[n].args = current_tool_calls[n].args

\* the context size behind a Usage whose input_tokens include the cached
\* tokens: every token once
RealContextSize(u) == u.input_tokens + u.output_tokens + u.cache_write_tokens

\* C35: for a Usage of a provider parser, whose input_tokens already include
\* the cache-read tokens, is_overflow is never true while the real context
\* size (input + output + cache-write) is below
\* context_window - min(buffer_tokens, max_output_tokens).
C35_CachedTokensCountedOnce ==
    (called /\ RealContextSize(callRet.usage)
                   < callArgs.config.W - Min(callArgs.config.B, callArgs.config.M))
        => ~callRet.overflow

BothEditsApplied ==
    Replace(Replace(edOrig, EditParams[1].old_string, EditParams[1].new_string, FALSE),
            EditParams[2].old_string, EditParams[2].new_string, FALSE)

\* C36: when two edit calls on the same file run concurrently in one turn
\* and both report success, the final file content holds both replacements,
\* whatever the interleaving of their read and write steps.
C36_NoLostEdit ==
    (\A p \in EditCalls : edPc[p] = "done" /\ edResult[p] = "success")
        => edFile = BothEditsApplied

\* the same when the second call starts after the first has finished
SequentialEditsApplied ==
    (/\ \A p \in EditCalls : edPc[p] = "done" /\ edResult[p] = "success"
     /\ \E p \in EditCalls : edSeen[p] # edOrig)
        => edFile = BothEditsApplied

TextDeltas == SelectSeq(callArgs, LAMBDA p : p.type = "text")

EndsWith(kind) == callArgs # <<>> /\ callArgs[Len(callArgs)].type = kind

SummaryOfDoneStream ==
    (called /\ EndsWith("done") /\ TextDeltas # <<>>) =>
        /\ ~callRet.raised
        /\ callRet.summary =
               (IF Len(TextDeltas) = 1 THEN TextDeltas[1].text
                ELSE IF Len(TextDeltas) = 2 THEN TextDeltas[1].text \o TextDeltas[2].text
                ELSE IF Len(TextDeltas) = 3
                THEN TextDeltas[1].text \o TextDeltas[2].text \o TextDeltas[3].text
                ELSE callRet.summary)

\* C37: generate_summary returns the in-order concatenation of the text
\* deltas of a summarisation stream that ended with Done; when the stream
\* yields an Error event, or ends without any text, it reports a failure
\* instead of returning a partial or empty summary.
C37_SummaryOrFailure ==
    /\ SummaryOfDoneStream
    /\ (called /\ (EndsWith("error") \/ TextDeltas = <<>>)) => callRet.raised

SameIds ==
    /\ ~callRet.raised
    /\ callRet.function_call.call_id = callArgs.call_id
    /\ callRet.function_call.id = callArgs.item_id
    /\ callRet.function_call_output.call_id = callArgs.call_id

\* C38: for every tool call parsed from a Responses stream with provider ids
\* (call_id, item_id), the next request holds a function_call item with the
\* same call_id and item id and a function_call_output with the same call_id,
\* for every id value (a missing item id and ids containing '|' included),
\* and building the request never fails.
C38_IdsRoundTrip == called => SameIds

PlainIdsRoundTrip ==
    (/\ called
     /\ ~HasBar(callArgs.call_id)
     /\ ~HasBar(callArgs.item_id.v)
     /\ (callArgs.provider = "responses" => callArgs.item_id.present)) => SameIds

PollReturns == <>(pResult # "none")

NoPollAfterDeadline == \A i \in 1..Len(polls) : polls[i].at < deadline

\* C39: poll_for_github_token always terminates: whatever the server answers,
\* endless authorization_pending or slow_down included, it eventually returns
\* a token or raises, and it issues no poll once the deadline of the device
\* code has passed.
C39_PollTerminates == PollReturns /\ []NoPollAfterDeadline

C39_Witness ==
    /\ pResult = "timeout"
    /\ Len(polls) >= 2
    /\ \A i \in 1..Len(polls) : polls[i].response \in {"authorization_pending", "slow_down"}
    /\ \E i \in 1..Len(polls) : polls[i].response = "slow_down"
    /\ pNow >= deadline

IndexInRange ==
    /\ hIndex \in (0 - Len(hEntries))..0
    /\ Len(hEntries) <= MAX_HISTORY_ENTRIES

MoveOutOfRange ==
    \/ hCall.entries = <<>>
    \/ hCall.index + hCall.direction > 0
    \/ hCall.index + hCall.direction < 0 - Len(hCall.entries)

RefusedMove ==
    (hCall.op = "navigate" /\ MoveOutOfRange) =>
        hCall.ret = "None" /\ hIndex = hCall.index

DraftRestored ==
    (hCall.op = "navigate" /\ ~MoveOutOfRange /\ hCall.index # 0 /\ hIndex = 0) =>
        hCall.ret = hLeft

IsRepeat == hCall.entries # <<>> /\ hCall.entries[Len(hCall.entries)] = hCall.text

AppendIgnores ==
    (hCall.op = "append" /\ (hCall.text = "" \/ IsRepeat)) => hEntries = hCall.entries

\* C40: after any sequence of append and navigate calls the index stays in
\* [-len(entries), 0] and the entries never exceed the cap; navigate returns
\* None and leaves the index unchanged when the move would leave that range
\* or the history is empty; navigating back to index 0 returns the draft that
\* was in the input when navigation left index 0; append ignores empty text
\* and a repeat of the last entry, and resets the index to 0.
C40_PromptHistory ==
    /\ IndexInRange
    /\ RefusedMove
    /\ DraftRestored
    /\ AppendIgnores
    /\ hCall.op = "append" => hIndex = 0

HistoryExceptEmptyAppend ==
    /\ IndexInRange
    /\ RefusedMove
    /\ DraftRestored
    /\ AppendIgnores
    /\ (hCall.op = "append" /\ hCall.text # "") => hIndex = 0 /\ hDraft = ""

====
